---- MODULE Spec2Model ----
(***************************************************************************)
(* Model of the NaukriAI candidate matching and ranking engines:           *)
(*   - the lenient engine  ai_matching.AdvancedCandidateMatcher            *)
(*   - the strict engine   advanced_matching.AdvancedCandidateMatcher      *)
(*   - the refiner         ai_matching.CandidateRanker                     *)
(*   - the /advanced-match endpoint of fastapi_app                         *)
(*                                                                         *)
(* Text is a sequence of one-character strings, so that str.lower, the     *)
(* regular expression of _preprocess_text and Python's substring test `in` *)
(* are computed character by character.  Python floats are modelled as     *)
(* exact rationals <<numerator, denominator>> in lowest terms.             *)
(***************************************************************************)
EXTENDS Integers, Sequences, FiniteSets, TLC

VARIABLES dataset, criteria_weights, last, prev, startup, temp_files

vars == <<dataset, criteria_weights, last, prev, startup, temp_files>>

-----------------------------------------------------------------------------
(* Bounds of the model *)

\* the longest dataset
MaxCandidates == 2

\* top_n ranges over -MaxNegTopN .. MaxTopN
MaxTopN == 2

MaxNegTopN == 1

-----------------------------------------------------------------------------
(* Generic sequence helpers *)

Range(s) == {s[i] : i \in 1..Len(s)}

Min(a, b) == IF a <= b THEN a ELSE b

Max(a, b) == IF a >= b THEN a ELSE b

\* Python's slice s[:n]: a negative n counts from the end of the list
Slice(s, n) ==
    IF n >= 0 THEN SubSeq(s, 1, Min(n, Len(s)))
    ELSE SubSeq(s, 1, Max(Len(s) + n, 0))

\* Bind(v, F) is F(v) with v computed once, as an assignment to a local variable
\* computes its right-hand side once
Bind(v, F(_)) == CHOOSE r \in {F(x) : x \in {v}} : TRUE

\* d.get(key, default) on a candidate record whose fields may be absent
Get(d, key, default) == IF key \in DOMAIN d THEN d[key] ELSE default

-----------------------------------------------------------------------------
(* Text: characters, str.lower, the substring test, _preprocess_text *)

UpperChars == <<"A","B","C","D","E","F","G","H","I","J","K","L","M",
                "N","O","P","Q","R","S","T","U","V","W","X","Y","Z">>

LowerChars == <<"a","b","c","d","e","f","g","h","i","j","k","l","m",
                "n","o","p","q","r","s","t","u","v","w","x","y","z">>

DigitChars == {"0","1","2","3","4","5","6","7","8","9"}

\* the lower-case letter of each upper-case letter
LowerOf == [c \in {UpperChars[i] : i \in 1..Len(UpperChars)} |->
              LowerChars[CHOOSE i \in 1..Len(UpperChars) : UpperChars[i] = c]]

LowerChar(c) == IF c \in DOMAIN LowerOf THEN LowerOf[c] ELSE c

\* str.lower()
Lower(text) == [i \in 1..Len(text) |-> LowerChar(text[i])]

\* [t.lower() for t in texts]
LowerAll(texts) == [i \in 1..Len(texts) |-> Lower(texts[i])]

\* Python's `a in b` on two strings
IsSubstring(a, b) ==
    \E i \in 0..(Len(b) - Len(a)) : SubSeq(b, i + 1, i + Len(a)) = a

\* \w of the regular expression
WordChars == Range(UpperChars) \cup Range(LowerChars) \cup DigitChars \cup {"_"}

IsWordChar(c) == c \in WordChars

\* \s of the regular expression
IsSpaceChar(c) == c = " "

\* the characters re.sub(r'[^\w\s-]', '', ...) keeps
IsKeptChar(c) == IsWordChar(c) \/ IsSpaceChar(c) \/ c = "-"

\* ' '.join(text.split()): runs of white space become one blank, none at the ends
RECURSIVE CollapseSpaces(_, _)
CollapseSpaces(text, pendingSpace) ==
    IF text = <<>> THEN <<>>
    ELSE IF IsSpaceChar(Head(text)) THEN CollapseSpaces(Tail(text), TRUE)
    ELSE (IF pendingSpace THEN <<" ">> ELSE <<>>) \o <<Head(text)>>
         \o CollapseSpaces(Tail(text), FALSE)

RECURSIVE DropLeadingSpaces(_)
DropLeadingSpaces(text) ==
    IF text # <<>> /\ IsSpaceChar(Head(text)) THEN DropLeadingSpaces(Tail(text))
    ELSE text

\* re.sub(r'[^\w\s-]', '', text): the kept characters, in their order
RECURSIVE KeptChars(_)
KeptChars(text) ==
    IF text = <<>> THEN <<>>
    ELSE (IF IsKeptChar(Head(text)) THEN <<Head(text)>> ELSE <<>>) \o KeptChars(Tail(text))

_preprocess_text(text) == CollapseSpaces(DropLeadingSpaces(KeptChars(Lower(text))), FALSE)

\* [self._preprocess_text(skill) for skill in skills]
PreprocessAll(skills) == [i \in 1..Len(skills) |-> _preprocess_text(skills[i])]

-----------------------------------------------------------------------------
(* Floats as exact rationals <<n, d>>, d > 0, in lowest terms *)

Abs(x) == IF x < 0 THEN -x ELSE x

RECURSIVE GCD(_, _)
GCD(a, b) == IF b = 0 THEN a ELSE GCD(b, a % b)

Rat(n, d) ==
    IF n = 0 THEN <<0, 1>>
    ELSE Bind(GCD(Abs(n), d), LAMBDA g : <<n \div g, d \div g>>)

RatAdd(a, b) == Rat(a[1] * b[2] + b[1] * a[2], a[2] * b[2])

RatMul(a, b) == Rat(a[1] * b[1], a[2] * b[2])

RatDiv(a, b) == Rat(a[1] * b[2], a[2] * b[1])

RatLE(a, b) == a[1] * b[2] <= b[1] * a[2]

RatLT(a, b) == a[1] * b[2] < b[1] * a[2]

RatMax(a, b) == IF RatLE(a, b) THEN b ELSE a

RatMin(a, b) == IF RatLE(a, b) THEN a ELSE b

Zero == <<0, 1>>

One == <<1, 1>>

Half == <<1, 2>>

-----------------------------------------------------------------------------
(* Text literals: T_xyz is the Python string "xyz" *)

T_python == <<"p","y","t","h","o","n">>

T_javascript == <<"j","a","v","a","s","c","r","i","p","t">>

T_react == <<"r","e","a","c","t">>

T_node_js == <<"n","o","d","e",".","j","s">>

T_machine_learning == <<"m","a","c","h","i","n","e"," ","l","e","a","r","n","i","n","g">>

T_data_science == <<"d","a","t","a"," ","s","c","i","e","n","c","e">>

T_cloud_computing == <<"c","l","o","u","d"," ","c","o","m","p","u","t","i","n","g">>

T_aws == <<"a","w","s">>

T_azure == <<"a","z","u","r","e">>

T_kubernetes == <<"k","u","b","e","r","n","e","t","e","s">>

T_docker == <<"d","o","c","k","e","r">>

T_devops == <<"d","e","v","o","p","s">>

T_rag == <<"r","a","g">>

T_langchain == <<"l","a","n","g","c","h","a","i","n">>

T_llama_index == <<"l","l","a","m","a"," ","i","n","d","e","x">>

T_langflow == <<"l","a","n","g","f","l","o","w">>

T_agentic_ai == <<"a","g","e","n","t","i","c"," ","a","i">>

T_generative_ai == <<"g","e","n","e","r","a","t","i","v","e","-","a","i">>

T_java == <<"j","a","v","a">>

T_Python_cap == <<"P","y","t","h","o","n">>

T_RAG_upper == <<"R","A","G">>

T_senior == <<"s","e","n","i","o","r">>

T_Senior_cap == <<"S","e","n","i","o","r">>

T_midlevel == <<"m","i","d","l","e","v","e","l">>

T_junior == <<"j","u","n","i","o","r">>

T_full_time == <<"f","u","l","l","-","t","i","m","e">>

T_remote == <<"r","e","m","o","t","e">>

T_contract == <<"c","o","n","t","r","a","c","t">>

T_Remote_cap == <<"R","e","m","o","t","e">>

T_Europe_cap == <<"E","u","r","o","p","e">>

T_europe == <<"e","u","r","o","p","e">>

T_Asia_cap == <<"A","s","i","a">>

T_1_3 == <<"1","-","3">>

T_3_5 == <<"3","-","5">>

T_5_10 == <<"5","-","1","0">>

T_5plus == <<"5","+">>

T_10plus == <<"1","0","+">>

T_15plus == <<"1","5","+">>

\* a skill that is only punctuation: _preprocess_text turns it into the empty string
T_bangs == <<"!","!">>

\* "python" written with surrounding blanks and a full stop
T_python_padded == <<" ","P","y","t","h","o","n","."," ">>

-----------------------------------------------------------------------------
(* The lenient engine: ai_matching.AdvancedCandidateMatcher *)

\* self.skill_weights, the table of _initialize_skill_weights, in tenths
SkillWeightTable ==
    {
    <<T_python, 10>>,
    <<T_javascript, 9>>,
    <<T_react, 9>>,
    <<T_node_js, 9>>,
    <<T_machine_learning, 12>>,
    <<T_data_science, 11>>,
    <<T_cloud_computing, 10>>,
    <<T_aws, 10>>,
    <<T_azure, 10>>,
    <<T_kubernetes, 11>>,
    <<T_docker, 10>>,
    <<T_devops, 10>>,
    <<T_rag, 12>>,
    <<T_langchain, 12>>,
    <<T_llama_index, 12>>,
    <<T_langflow, 11>>,
    <<T_agentic_ai, 13>>,
    <<T_generative_ai, 13>> }


\* self.skill_weights.get(skill, 1.0)
skill_weights_get(skill) ==
    IF \E e \in SkillWeightTable : e[1] = skill
    THEN Rat((CHOOSE e \in SkillWeightTable : e[1] = skill)[2], 10)
    ELSE One

\* Python's None for an optional argument (no text is equal to it)
None == <<"None">>

\* Python truthiness of an optional text or list argument: None, '' and [] are falsy
Truthy(x) == x # None /\ x # <<>>

\* req_skill in cand_skill or cand_skill in req_skill
SkillsRelated(a, b) == IsSubstring(a, b) \/ IsSubstring(b, a)

\* the first candidate skill the inner loop stops at, 0 when it finds none
FirstRelated(req_skill, candidate_skills) ==
    IF \E j \in 1..Len(candidate_skills) : SkillsRelated(req_skill, candidate_skills[j])
    THEN CHOOSE j \in 1..Len(candidate_skills) :
            /\ SkillsRelated(req_skill, candidate_skills[j])
            /\ \A k \in 1..(j - 1) : ~SkillsRelated(req_skill, candidate_skills[k])
    ELSE 0

\* (faulty variant) the required skill is put into gaps whether or not it was found
RECURSIVE FindMatchesAndGaps_GapsAlways(_, _)
FindMatchesAndGaps_GapsAlways(required_skills, candidate_skills) ==
    IF required_skills = <<>> THEN [matches |-> <<>>, gaps |-> <<>>]
    ELSE Bind(FirstRelated(Head(required_skills), candidate_skills), LAMBDA j :
         Bind(FindMatchesAndGaps_GapsAlways(Tail(required_skills), candidate_skills),
              LAMBDA rest :
            [matches |-> (IF j # 0 THEN <<candidate_skills[j]>> ELSE <<>>) \o rest.matches,
             gaps    |-> <<Head(required_skills)>> \o rest.gaps]))

\* the loop that fills matches (the candidate's skill found) and gaps (the required skill not found)
RECURSIVE FindMatchesAndGaps(_, _)
FindMatchesAndGaps(required_skills, candidate_skills) ==
    IF required_skills = <<>> THEN [matches |-> <<>>, gaps |-> <<>>]
    ELSE Bind(FirstRelated(Head(required_skills), candidate_skills), LAMBDA j :
         Bind(FindMatchesAndGaps(Tail(required_skills), candidate_skills), LAMBDA rest :
            IF j # 0
            THEN [matches |-> <<candidate_skills[j]>> \o rest.matches, gaps |-> rest.gaps]
            ELSE [matches |-> rest.matches, gaps |-> <<Head(required_skills)>> \o rest.gaps]))

\* total_weight: the sum of the weights of all required skills
RECURSIVE TotalWeight(_)
TotalWeight(required_skills) ==
    IF required_skills = <<>> THEN Zero
    ELSE RatAdd(skill_weights_get(Head(required_skills)), TotalWeight(Tail(required_skills)))

\* (faulty variant) the weight is added for the required skills that are NOT matched
RECURSIVE MatchedWeight_Inverted(_, _)
MatchedWeight_Inverted(required_skills, matches) ==
    IF required_skills = <<>> THEN Zero
    ELSE LET skill == Head(required_skills)
             w == IF \E i \in 1..Len(matches) : SkillsRelated(skill, matches[i])
                  THEN Zero ELSE skill_weights_get(skill)
         IN  RatAdd(w, MatchedWeight_Inverted(Tail(required_skills), matches))

\* (faulty variant) every matched required skill counts 1.0, whatever its weight
RECURSIVE MatchedWeight_CountOnly(_, _)
MatchedWeight_CountOnly(required_skills, matches) ==
    IF required_skills = <<>> THEN Zero
    ELSE LET skill == Head(required_skills)
             w == IF \E i \in 1..Len(matches) : SkillsRelated(skill, matches[i])
                  THEN One ELSE Zero
         IN  RatAdd(w, MatchedWeight_CountOnly(Tail(required_skills), matches))

\* match_score: the sum of the weights of the required skills related to some element of matches
RECURSIVE MatchedWeight(_, _)
MatchedWeight(required_skills, matches) ==
    IF required_skills = <<>> THEN Zero
    ELSE LET skill == Head(required_skills)
             w == IF \E i \in 1..Len(matches) : SkillsRelated(skill, matches[i])
                  THEN skill_weights_get(skill) ELSE Zero
         IN  RatAdd(w, MatchedWeight(Tail(required_skills), matches))

\* (faulty variant) without the early return for an empty requirement
_calculate_skill_similarity_NoEarlyReturn(required_skills, candidate_skills) ==
    Bind(PreprocessAll(required_skills), LAMBDA req :
    Bind(PreprocessAll(candidate_skills), LAMBDA cand :
    Bind(FindMatchesAndGaps(req, cand), LAMBDA found :
    Bind(TotalWeight(req), LAMBDA total_weight :
    Bind(MatchedWeight(req, found.matches), LAMBDA match_score :
        [score   |-> IF RatLT(Zero, total_weight) THEN RatDiv(match_score, total_weight)
                     ELSE Zero,
         gaps    |-> found.gaps,
         matches |-> found.matches])))))

\* returns the triple (normalized_score, gaps, matches) as a record
_calculate_skill_similarity(required_skills, candidate_skills) ==
    IF ~Truthy(required_skills) THEN [score |-> One, gaps |-> <<>>, matches |-> <<>>]
    ELSE Bind(PreprocessAll(required_skills), LAMBDA req :
         Bind(PreprocessAll(candidate_skills), LAMBDA cand :
         Bind(FindMatchesAndGaps(req, cand), LAMBDA found :
         Bind(TotalWeight(req), LAMBDA total_weight :
         Bind(MatchedWeight(req, found.matches), LAMBDA match_score :
            [score   |-> IF RatLT(Zero, total_weight) THEN RatDiv(match_score, total_weight)
                         ELSE Zero,
             gaps    |-> found.gaps,
             matches |-> found.matches])))))

\* exp_map.get(label.lower(), 0)
exp_map_get(label) ==
    LET l == Lower(label)
    IN  CASE l = T_1_3 -> 1
          [] l = T_3_5 -> 2
          [] l = T_5_10 -> 3
          [] l = T_10plus -> 4
          [] l = T_15plus -> 5
          [] OTHER -> 0

\* seniority_levels.get(label.lower(), 0)
seniority_levels_get(label) ==
    LET l == Lower(label)
    IN  CASE l = T_junior -> 1
          [] l = T_midlevel -> 2
          [] l = T_senior -> 3
          [] OTHER -> 0

\* (faulty variant) the plain ratio of the ranks, without the 0.1 floor
OrdinalMatch_PlainRatio(req_level, cand_level) ==
    IF req_level = 0 \/ cand_level = 0 THEN Half
    ELSE IF cand_level >= req_level THEN One
    ELSE Rat(cand_level, req_level)

\* the score both ordinal matchers compute from the two ranks
OrdinalMatch(req_level, cand_level) ==
    IF req_level = 0 \/ cand_level = 0 THEN Half
    ELSE IF cand_level >= req_level THEN One
    ELSE RatMax(Rat(1, 10), RatAdd(Rat(1, 10), RatMul(Rat(cand_level, req_level), Rat(9, 10))))

_calculate_experience_match(required_exp, candidate_exp) ==
    OrdinalMatch(exp_map_get(required_exp), exp_map_get(candidate_exp))

_calculate_seniority_match(required_seniority, candidate_seniority) ==
    OrdinalMatch(seniority_levels_get(required_seniority), seniority_levels_get(candidate_seniority))

_calculate_employment_match(required_type, candidate_type) ==
    IF Lower(required_type) = Lower(candidate_type) THEN One
    ELSE IF IsSubstring(T_remote, Lower(required_type)) \/ IsSubstring(T_remote, Lower(candidate_type))
         THEN Rat(8, 10)
    ELSE Zero

\* (faulty variant) the locations are compared as they are written
_calculate_location_match_CaseSensitive(required_locations, candidate_locations) ==
    IF ~Truthy(required_locations) THEN One
    ELSE IF \E i \in 1..Len(required_locations) :
               required_locations[i] \in Range(candidate_locations) THEN One
    ELSE IF T_remote \in Range(required_locations) \/ T_remote \in Range(candidate_locations)
         THEN Rat(8, 10)
    ELSE Zero

_calculate_location_match(required_locations, candidate_locations) ==
    IF ~Truthy(required_locations) THEN One
    ELSE LET req  == LowerAll(required_locations)
             cand == LowerAll(candidate_locations)
         IN  IF \E i \in 1..Len(req) : req[i] \in Range(cand) THEN One
             ELSE IF T_remote \in Range(req) \/ T_remote \in Range(cand) THEN Rat(8, 10)
             ELSE Zero

\* (faulty variant) the weights of skills and experience changed places
MatchWeights_Swapped ==
    [skills |-> Rat(20, 100), experience |-> Rat(50, 100), seniority |-> Rat(15, 100),
     employment |-> Rat(10, 100), location |-> Rat(5, 100)]

\* the weights dict of match_candidates, in hundredths
MatchWeights ==
    [skills |-> Rat(50, 100), experience |-> Rat(20, 100), seniority |-> Rat(15, 100),
     employment |-> Rat(10, 100), location |-> Rat(5, 100)]

\* (faulty variant) the five sub-scores are added up without their weights
TotalScore_UnweightedSum(skill_score, exp_score, seniority_score, employment_score, location_score) ==
    RatAdd(skill_score, RatAdd(exp_score, RatAdd(seniority_score,
           RatAdd(employment_score, location_score))))

\* total_score: the weighted average of the five sub-scores
TotalScore(skill_score, exp_score, seniority_score, employment_score, location_score) ==
    LET w == MatchWeights
        sum_weights == RatAdd(w.skills, RatAdd(w.experience, RatAdd(w.seniority,
                       RatAdd(w.employment, w.location))))
        weighted == RatAdd(RatMul(skill_score, w.skills),
                    RatAdd(RatMul(exp_score, w.experience),
                    RatAdd(RatMul(seniority_score, w.seniority),
                    RatAdd(RatMul(employment_score, w.employment),
                           RatMul(location_score, w.location)))))
    IN  RatDiv(weighted, sum_weights)

\* the body of the loop over self.dataset: the CandidateMatch built for dataset[idx].
\* idx is the identity of the dataset record the match was built from.
LenientMatchOf(ds, idx, req) ==
    Bind(ds[idx], LAMBDA candidate :
    Bind(_calculate_skill_similarity(req.required_skills, Get(candidate, "skills", <<>>)),
         LAMBDA sk :
    Bind(IF Truthy(req.experience_years)
         THEN _calculate_experience_match(req.experience_years,
                                          Get(candidate, "experience_years", <<>>))
         ELSE One, LAMBDA exp_score :
    Bind(IF Truthy(req.seniority)
         THEN _calculate_seniority_match(req.seniority, Get(candidate, "seniority", <<>>))
         ELSE One, LAMBDA seniority_score :
    Bind(IF Truthy(req.employment_type)
         THEN _calculate_employment_match(req.employment_type,
                                          Get(candidate, "employment_type", <<>>))
         ELSE One, LAMBDA employment_score :
    Bind(IF Truthy(req.locations)
         THEN _calculate_location_match(req.locations, Get(candidate, "location", <<>>))
         ELSE One, LAMBDA location_score :
        [idx              |-> idx,
         name             |-> Get(candidate, "name", "Unknown"),
         seniority        |-> Get(candidate, "seniority", <<>>),
         skills           |-> Get(candidate, "skills", <<>>),
         experience_years |-> Get(candidate, "experience_years", <<>>),
         employment_type  |-> Get(candidate, "employment_type", <<>>),
         location         |-> Get(candidate, "location", <<>>),
         match_score      |-> TotalScore(sk.score, exp_score, seniority_score,
                                         employment_score, location_score),
         skill_gaps       |-> sk.gaps,
         skill_matches    |-> sk.matches,
         experience_match |-> exp_score,
         seniority_match  |-> seniority_score,
         employment_match |-> employment_score,
         location_match   |-> location_score]))))))

\* list.sort(key=..., reverse=True): a stable sort into descending key order.
\* As list.sort does, the keys are computed once: the list sorted is one of
\* <<key, element>> pairs.  InsertDesc puts a pair behind every pair whose key is
\* greater than or equal to its own.
RECURSIVE InsertDesc(_, _)
InsertDesc(x, sorted) ==
    IF sorted = <<>> THEN <<x>>
    ELSE IF RatLT(Head(sorted)[1], x[1]) THEN <<x>> \o sorted
    ELSE Bind(Tail(sorted), LAMBDA rest : <<Head(sorted)>> \o InsertDesc(x, rest))

RECURSIVE SortDescFrom(_, _)
SortDescFrom(todo, sorted) ==
    IF todo = <<>> THEN sorted
    ELSE Bind(InsertDesc(Head(todo), sorted), LAMBDA longer : SortDescFrom(Tail(todo), longer))

\* the elements of the keyed list, sorted
SortDesc(keyed) ==
    Bind(SortDescFrom(keyed, <<>>), LAMBDA sorted : [i \in 1..Len(sorted) |-> sorted[i][2]])

\* key=lambda x: x.match_score
KeyedByMatchScore(matches) == [i \in 1..Len(matches) |-> <<matches[i].match_score, matches[i]>>]

\* (faulty variant) a record that lacks one of its six fields is left out
RECURSIVE LenientMatchesFrom_SkipsIncomplete(_, _, _)
LenientMatchesFrom_SkipsIncomplete(ds, idx, req) ==
    IF idx > Len(ds) THEN <<>>
    ELSE (IF {"name", "seniority", "skills", "location", "employment_type",
              "experience_years"} \subseteq DOMAIN ds[idx]
          THEN <<LenientMatchOf(ds, idx, req)>> ELSE <<>>)
         \o LenientMatchesFrom_SkipsIncomplete(ds, idx + 1, req)

LenientMatches_SkipsIncomplete(ds, req) == LenientMatchesFrom_SkipsIncomplete(ds, 1, req)

\* the list matches the loop over self.dataset builds
LenientMatches(ds, req) == [i \in 1..Len(ds) |-> LenientMatchOf(ds, i, req)]

\* (faulty variant) the list is returned in dataset order
LenientMatchCandidates_Unsorted(ds, req, top_n) == Slice(LenientMatches(ds, req), top_n)

\* (faulty variant) sorted(matches, key=...)[::-1]: ascending, then reversed, which turns ties round
RECURSIVE InsertBeforeTies(_, _)
InsertBeforeTies(x, sorted) ==
    IF sorted = <<>> THEN <<x>>
    ELSE IF RatLE(Head(sorted)[1], x[1]) THEN <<x>> \o sorted
    ELSE Bind(Tail(sorted), LAMBDA rest : <<Head(sorted)>> \o InsertBeforeTies(x, rest))

RECURSIVE SortTiesReversedFrom(_, _)
SortTiesReversedFrom(todo, sorted) ==
    IF todo = <<>> THEN sorted
    ELSE Bind(InsertBeforeTies(Head(todo), sorted), LAMBDA longer :
              SortTiesReversedFrom(Tail(todo), longer))

LenientMatchCandidates_TiesReversed(ds, req, top_n) ==
    Bind(SortTiesReversedFrom(KeyedByMatchScore(LenientMatches(ds, req)), <<>>), LAMBDA sorted :
        Slice([i \in 1..Len(sorted) |-> sorted[i][2]], top_n))

\* (faulty variant) the list is cut to top_n before it is sorted
LenientMatchCandidates_TruncatesFirst(ds, req, top_n) ==
    Bind(Slice(LenientMatches(ds, req), top_n), LAMBDA cut : SortDesc(KeyedByMatchScore(cut)))

\* (faulty variant) a candidate with a skill gap is left out, as the strict engine does
RECURSIVE WithoutGaps(_)
WithoutGaps(matches) ==
    IF matches = <<>> THEN <<>>
    ELSE (IF Head(matches).skill_gaps = <<>> THEN <<Head(matches)>> ELSE <<>>)
         \o WithoutGaps(Tail(matches))

LenientMatchCandidates_DropsGaps(ds, req, top_n) ==
    Bind(WithoutGaps(LenientMatches(ds, req)), LAMBDA matches :
        Slice(SortDesc(KeyedByMatchScore(matches)), top_n))

\* ai_matching.AdvancedCandidateMatcher.match_candidates
LenientMatchCandidates(ds, req, top_n) ==
    Bind(LenientMatches(ds, req), LAMBDA matches :
    Bind(SortDesc(KeyedByMatchScore(matches)), LAMBDA sorted :
        Slice(sorted, top_n)))


-----------------------------------------------------------------------------
(* The external analyzer (the Groq client).  One handler run receives a    *)
(* script of replies; the i-th call of the run gets the i-th reply, the    *)
(* script repeating when the run makes more calls than it is long.         *)

\* A reply is a failed call ("error": the client raised), free text ("text") or
\* a JSON object {"cultural_fit_score": value} ("score").
ServiceError == [kind |-> "error", value |-> Zero]

TextReply == [kind |-> "text", value |-> Zero]

ScoreReply(v) == [kind |-> "score", value |-> v]

ReplyOf(script, call_no) == script[((call_no - 1) % Len(script)) + 1]

-----------------------------------------------------------------------------
(* The strict engine: advanced_matching.AdvancedCandidateMatcher *)

\* the four `continue` filters at the head of the loop
PassesFilters(candidate, req) ==
    /\ ~(Truthy(req.seniority) /\ Get(candidate, "seniority", None) # req.seniority)
    /\ ~(Truthy(req.location)
         /\ Lower(req.location) \notin Range(LowerAll(Get(candidate, "location", <<>>))))
    /\ ~(Truthy(req.employment_type)
         /\ Lower(req.employment_type) # Lower(Get(candidate, "employment_type", <<>>)))
    /\ ~(Truthy(req.experience_years)
         /\ req.experience_years # Get(candidate, "experience_years", None))

\* candidate_skills = set(skill.lower() for skill in candidate.get('skills', []))
CandidateSkillSet(candidate) == Range(LowerAll(Get(candidate, "skills", <<>>)))

\* [s for s in skills_lower if s in candidate_skills]
RECURSIVE MatchedIn(_, _)
MatchedIn(skills_lower, candidate_skills) ==
    IF skills_lower = <<>> THEN <<>>
    ELSE (IF Head(skills_lower) \in candidate_skills THEN <<Head(skills_lower)>> ELSE <<>>)
         \o MatchedIn(Tail(skills_lower), candidate_skills)

\* [s for s in skills_lower if s not in candidate_skills]
RECURSIVE MissingIn(_, _)
MissingIn(skills_lower, candidate_skills) ==
    IF skills_lower = <<>> THEN <<>>
    ELSE (IF Head(skills_lower) \notin candidate_skills THEN <<Head(skills_lower)>> ELSE <<>>)
         \o MissingIn(Tail(skills_lower), candidate_skills)

\* the score of an admitted candidate, before the cap
StrictScore(candidate, req, matched_required, matched_preferred) ==
    LET required_part ==
            IF req.required_skills # <<>>
            THEN RatMul(Rat(50, 1), Rat(Len(matched_required), Len(req.required_skills)))
            ELSE Zero
        preferred_part ==
            IF req.preferred_skills # <<>>
            THEN RatMul(Rat(30, 1), Rat(Len(matched_preferred), Len(req.preferred_skills)))
            ELSE Zero
        seniority_part ==
            IF Truthy(req.seniority) /\ Get(candidate, "seniority", None) = req.seniority
            THEN Rat(10, 1) ELSE Zero
        experience_part ==
            IF Truthy(req.experience_years)
               /\ Get(candidate, "experience_years", None) = req.experience_years
            THEN Rat(10, 1) ELSE Zero
    IN  RatAdd(required_part, RatAdd(preferred_part, RatAdd(seniority_part, experience_part)))

\* _generate_skill_gap_analysis makes an analyzer call only when a skill is missing
NeedsGapCall(candidate_skills, all_skills) == MissingIn(all_skills, candidate_skills) # <<>>

\* (faulty variant) a failed call is reported like a parsed analysis
_generate_skill_gap_analysis_HidesFailure(candidate_skills, all_skills, reply) ==
    IF ~NeedsGapCall(candidate_skills, all_skills) THEN [status |-> "All required skills met"]
    ELSE [analysis |-> "parsed reply"]

\* _generate_skill_gap_analysis; reply is the analyzer's answer to its call
_generate_skill_gap_analysis(candidate_skills, all_skills, reply) ==
    IF ~NeedsGapCall(candidate_skills, all_skills) THEN [status |-> "All required skills met"]
    ELSE IF reply.kind = "error" THEN [error |-> "Failed to generate skill gap analysis"]
    ELSE [analysis |-> "parsed reply"]

\* _generate_interview_questions; reply is the analyzer's answer to its call
_generate_interview_questions(all_skills, reply) ==
    IF reply.kind = "error" THEN [source |-> "fallback", about |-> Slice(all_skills, 5)]
    ELSE [source |-> "analyzer", about |-> <<>>]

\* (faulty variant) the `if missing_required: continue` gate is left out
IsSkipped_NoSkillGate(candidate, req, missing_required) == ~PassesFilters(candidate, req)

\* the candidate is skipped by one of the filters, or (`if missing_required: continue`)
\* because it lacks a required skill
IsSkipped(candidate, req, missing_required) ==
    ~PassesFilters(candidate, req) \/ missing_required # <<>>

\* one pass of the loop body for dataset[idx]: <<>> when the candidate is skipped,
\* else the one ScoredCandidate appended.  calls_before counts the analyzer calls
\* already made in this run; replies records what the analyzer answered to the calls
\* made for the candidate (gap is read only when gap_calls = 1).
StrictScoredOf(ds, idx, req, script, calls_before) ==
    Bind(ds[idx], LAMBDA candidate :
    Bind(CandidateSkillSet(candidate), LAMBDA candidate_skills :
    Bind(LowerAll(req.required_skills), LAMBDA required_skills_lower :
    Bind(LowerAll(req.preferred_skills), LAMBDA preferred_skills_lower :
    Bind(MatchedIn(required_skills_lower, candidate_skills), LAMBDA matched_required :
    Bind(MatchedIn(preferred_skills_lower, candidate_skills), LAMBDA matched_preferred :
    Bind(MissingIn(required_skills_lower, candidate_skills), LAMBDA missing_required :
    Bind(required_skills_lower \o preferred_skills_lower, LAMBDA all_skills :
    Bind(IF NeedsGapCall(candidate_skills, all_skills) THEN 1 ELSE 0, LAMBDA gap_calls :
        IF IsSkipped(candidate, req, missing_required)
        THEN [scored |-> <<>>, calls |-> calls_before, replies |-> <<>>]
        ELSE [scored |->
                << [idx                 |-> idx,
                    candidate           |-> candidate,
                    score               |-> RatMin(Rat(100, 1),
                                                   StrictScore(candidate, req, matched_required,
                                                               matched_preferred)),
                    skill_matches       |-> matched_required \o matched_preferred,
                    missing_skills      |-> missing_required,
                    skill_gap_analysis  |-> _generate_skill_gap_analysis(
                                                candidate_skills, all_skills,
                                                ReplyOf(script, calls_before + 1)),
                    interview_questions |-> _generate_interview_questions(
                                                all_skills,
                                                ReplyOf(script, calls_before + gap_calls + 1))] >>,
              calls |-> calls_before + gap_calls + 1,
              replies |-> << [idx       |-> idx,
                              gap_calls |-> gap_calls,
                              gap       |-> ReplyOf(script, calls_before + 1),
                              questions |-> ReplyOf(script, calls_before + gap_calls + 1)] >>
             ])))))))))

\* the loop over self.dataset from record idx on
RECURSIVE StrictLoop(_, _, _, _, _)
StrictLoop(ds, idx, req, script, calls_before) ==
    IF idx > Len(ds) THEN [scored |-> <<>>, calls |-> calls_before, replies |-> <<>>]
    ELSE Bind(StrictScoredOf(ds, idx, req, script, calls_before), LAMBDA one :
         Bind(StrictLoop(ds, idx + 1, req, script, one.calls), LAMBDA rest :
            [scored |-> one.scored \o rest.scored, calls |-> rest.calls,
             replies |-> one.replies \o rest.replies]))

\* key=lambda x: x.score
KeyedByScore(scored) == [i \in 1..Len(scored) |-> <<scored[i].score, scored[i]>>]

\* advanced_matching.AdvancedCandidateMatcher.match_candidates: the list returned
\* and the number of analyzer calls the run made
StrictMatchCandidates(ds, req, top_n, script) ==
    Bind(StrictLoop(ds, 1, req, script, 0), LAMBDA loop :
    Bind(SortDesc(KeyedByScore(loop.scored)), LAMBDA sorted :
        [result |-> Slice(sorted, top_n), analyzer_calls |-> loop.calls,
         replies |-> loop.replies]))


-----------------------------------------------------------------------------
(* The refiner: ai_matching.CandidateRanker *)

\* the default criteria_weights of CandidateRanker.__init__
DefaultCriteriaWeights ==
    [skill_match |-> Rat(40, 100), experience |-> Rat(25, 100), seniority |-> Rat(15, 100),
     education |-> Rat(10, 100), cultural_fit |-> Rat(10, 100)]

\* CandidateRanker.__init__: `criteria_weights or {...}` keeps the argument unless it is
\* None or an empty dict (both the empty mapping here)
CandidateRanker_init(criteria_weights_arg) ==
    IF DOMAIN criteria_weights_arg # {} THEN criteria_weights_arg ELSE DefaultCriteriaWeights

\* the five keys rank_candidates reads from self.criteria_weights
CriteriaKeys == {"skill_match", "experience", "seniority", "education", "cultural_fit"}

\* dict.update: the keys of custom replace those of weights, the others stay
DictUpdate(weights, custom) ==
    [k \in DOMAIN weights \cup DOMAIN custom |->
        IF k \in DOMAIN custom THEN custom[k] ELSE weights[k]]

\* round(x, 2): to the nearest hundredth, an exact tie to the even one
Round2(x) ==
    Bind((100 * x[1]) \div x[2], LAMBDA q :
    Bind((100 * x[1]) - q * x[2], LAMBDA rem :
        Rat(IF 2 * rem > x[2] \/ (2 * rem = x[2] /\ q % 2 = 1) THEN q + 1 ELSE q, 100)))

\* text.split('-')[0]: the part before the first '-'
RECURSIVE BeforeDash(_)
BeforeDash(text) ==
    IF text = <<>> \/ Head(text) = "-" THEN <<>>
    ELSE <<Head(text)>> \o BeforeDash(Tail(text))

\* text.replace('+', '')
RECURSIVE WithoutPlus(_)
WithoutPlus(text) ==
    IF text = <<>> THEN <<>>
    ELSE (IF Head(text) # "+" THEN <<Head(text)>> ELSE <<>>) \o WithoutPlus(Tail(text))

DigitValue(c) ==
    CASE c = "0" -> 0 [] c = "1" -> 1 [] c = "2" -> 2 [] c = "3" -> 3 [] c = "4" -> 4
      [] c = "5" -> 5 [] c = "6" -> 6 [] c = "7" -> 7 [] c = "8" -> 8 [] c = "9" -> 9

RECURSIVE DigitsValue(_, _)
DigitsValue(text, acc) ==
    IF text = <<>> THEN acc ELSE DigitsValue(Tail(text), 10 * acc + DigitValue(Head(text)))

\* float(text) for a text of decimal digits; any other text raises ValueError here
ParseFloat(text) ==
    IF text # <<>> /\ \A i \in 1..Len(text) : text[i] \in DigitChars
    THEN [raised |-> FALSE, value |-> Rat(DigitsValue(text, 0), 1)]
    ELSE [raised |-> TRUE, value |-> Zero]

_calculate_experience_score(experience) ==
    IF experience = <<>> THEN [raised |-> FALSE, value |-> Half]
    ELSE LET years == IF "-" \in Range(experience) THEN ParseFloat(BeforeDash(experience))
                      ELSE IF "+" \in Range(experience) THEN ParseFloat(WithoutPlus(experience))
                      ELSE [raised |-> FALSE, value |-> Zero]
         IN  [raised |-> years.raised,
              value  |-> RatMin(One, RatMax(Zero, RatDiv(years.value, Rat(20, 1))))]

T_lead == <<"l","e","a","d">>

T_principal == <<"p","r","i","n","c","i","p","a","l">>

_calculate_seniority_score(seniority) ==
    LET l == Lower(seniority)
    IN  CASE l = T_junior -> Rat(3, 10)
          [] l = T_midlevel -> Rat(6, 10)
          [] l = T_senior -> Rat(9, 10)
          [] l = T_lead -> One
          [] l = T_principal -> One
          [] OTHER -> Half

\* (faulty variant) a failed call scores the candidate 0
_calculate_cultural_fit_ZeroOnFailure(reply) ==
    IF reply.kind = "score" THEN reply.value ELSE Zero

\* _calculate_cultural_fit: the analyzer's number as it comes, 0.5 when the call
\* raised or its reply holds no number
_calculate_cultural_fit(reply) ==
    IF reply.kind = "score" THEN reply.value ELSE Half

\* the body of the loop of rank_candidates for the idx-th candidate dict
RankingScoresOf(candidate, weights, company_culture, reply) ==
    Bind(IF "match_score" \in DOMAIN candidate THEN candidate.match_score ELSE Half,
         LAMBDA skill_score :
    Bind(_calculate_experience_score(Get(candidate, "experience_years", <<>>)), LAMBDA exp :
    Bind(_calculate_seniority_score(Lower(Get(candidate, "seniority", <<>>))),
         LAMBDA seniority_score :
    Bind(Rat(7, 10), LAMBDA education_score :
    Bind(IF Truthy(company_culture) THEN _calculate_cultural_fit(reply) ELSE Half,
         LAMBDA cultural_fit_score :
    Bind(IF CriteriaKeys \subseteq DOMAIN weights
         THEN RatAdd(RatMul(skill_score, weights.skill_match),
              RatAdd(RatMul(exp.value, weights.experience),
              RatAdd(RatMul(seniority_score, weights.seniority),
              RatAdd(RatMul(education_score, weights.education),
                     RatMul(cultural_fit_score, weights.cultural_fit)))))
         ELSE Zero, LAMBDA weighted_score :
        \* float() of a label that is no number raises ValueError, and
        \* self.criteria_weights[key] of a key that is not there raises KeyError
        [raised |-> exp.raised \/ ~(CriteriaKeys \subseteq DOMAIN weights),
         scores |-> [overall      |-> Round2(weighted_score),
                     skill_match  |-> Round2(skill_score),
                     experience   |-> Round2(exp.value),
                     seniority    |-> Round2(seniority_score),
                     education    |-> Round2(education_score),
                     cultural_fit |-> Round2(cultural_fit_score)]]))))))

\* key=lambda x: x['ranking_scores']['overall']
KeyedByOverall(scored) ==
    [i \in 1..Len(scored) |-> <<scored[i].ranking_scores.overall, scored[i]>>]

\* the criteria_weights the ranker holds after the call
\* (`if custom_criteria:` is false for None and for {}: both are the empty mapping here)
CriteriaWeightsAfter(weights, custom_criteria) ==
    IF DOMAIN custom_criteria # {} THEN DictUpdate(weights, custom_criteria) ELSE weights

\* the replies to the cultural-fit calls of one rank_candidates run: one call for each
\* candidate, in list order, when a company culture is given, and none otherwise
CulturalReplies(candidates, company_culture, script) ==
    IF Truthy(company_culture) THEN [i \in 1..Len(candidates) |-> ReplyOf(script, i)]
    ELSE <<>>

\* CandidateRanker.rank_candidates: the list returned, or raised when a label
\* of some candidate does not parse or a criterion has no weight.  The i-th candidate's cultural-fit call, when
\* one is made, is the i-th analyzer call of the run.
RankCandidates(candidates, weights, company_culture, custom_criteria, script) ==
    Bind(CriteriaWeightsAfter(weights, custom_criteria), LAMBDA w :
    Bind([i \in 1..Len(candidates) |->
            RankingScoresOf(candidates[i], w, company_culture, ReplyOf(script, i))],
         LAMBDA one :
    Bind([i \in 1..Len(candidates) |-> ("ranking_scores" :> one[i].scores) @@ candidates[i]],
         LAMBDA scored :
        IF \E i \in 1..Len(candidates) : one[i].raised
        THEN [raised |-> TRUE, result |-> <<>>]
        ELSE [raised |-> FALSE, result |-> SortDesc(KeyedByOverall(scored))])))


-----------------------------------------------------------------------------
(* The /advanced-match endpoint of fastapi_app *)

\* {**c.candidate, "score": ..., ...}: the dataset record overlaid with the result fields
FlattenScored(c) ==
    [score               |-> c.score,
     skill_matches       |-> c.skill_matches,
     missing_skills      |-> c.missing_skills,
     skill_gap_analysis  |-> c.skill_gap_analysis,
     interview_questions |-> c.interview_questions] @@ c.candidate

\* api_advanced_match: the strict engine without a location, answered as
\* {"matches": [...], "total": len(matches)}
ApiAdvancedMatchResponse(ds, body, script) ==
    Bind(StrictMatchCandidates(ds,
             [required_skills  |-> body.required_skills,
              preferred_skills |-> body.preferred_skills,
              seniority        |-> body.seniority,
              location         |-> None,
              employment_type  |-> body.employment_type,
              experience_years |-> body.experience_years],
             body.top_n, script), LAMBDA run :
        [matches |-> [i \in 1..Len(run.result) |-> FlattenScored(run.result[i])],
         total   |-> Len(run.result),
         analyzer_calls |-> run.analyzer_calls])

-----------------------------------------------------------------------------
(* Inputs of the model *)

TopNs == (0 - MaxNegTopN)..MaxTopN

SeqsUpTo(S, n) == UNION {[1..k -> S] : k \in 0..n}

\* the profile the other candidates of the pool vary
BaseCandidate ==
    [name |-> "Ava Smith", seniority |-> T_senior, skills |-> <<T_Python_cap, T_docker>>,
     location |-> <<T_Europe_cap>>, employment_type |-> T_full_time,
     experience_years |-> T_10plus]

WithSkills(skills) == [BaseCandidate EXCEPT !.skills = skills]

CandidatePool ==
    { BaseCandidate,
      \* the base profile with one more skill
      WithSkills(<<T_Python_cap, T_docker, T_RAG_upper>>),
      \* five skills of low weight, and four of high weight
      WithSkills(<<T_javascript, T_react, T_python, T_aws, T_azure>>),
      WithSkills(<<T_agentic_ai, T_generative_ai, T_rag, T_langchain>>),
      \* a junior who works remotely
      [name |-> "Li Wei", seniority |-> T_junior, skills |-> <<T_javascript, T_rag>>,
       location |-> <<T_Asia_cap>>, employment_type |-> T_remote,
       experience_years |-> T_1_3],
      \* a record with fields missing, whose one skill is only punctuation
      [name |-> "Noor", skills |-> <<T_bangs>>],
      \* a record without a name, skills and the other fields
      [seniority |-> T_midlevel] }

Datasets == SeqsUpTo(CandidatePool, MaxCandidates)

NineSkills ==
    <<T_javascript, T_react, T_python, T_aws, T_azure,
      T_agentic_ai, T_generative_ai, T_rag, T_langchain>>

LenientRequirements ==
    { [required_skills |-> <<T_python, T_rag>>, seniority |-> T_senior,
       experience_years |-> None, employment_type |-> None, locations |-> None],
      [required_skills |-> <<>>, seniority |-> None,
       experience_years |-> T_15plus, employment_type |-> T_remote,
       locations |-> <<T_Remote_cap>>],
      [required_skills |-> NineSkills, seniority |-> None,
       experience_years |-> None, employment_type |-> None, locations |-> None],
      [required_skills |-> <<T_python_padded, T_java>>, seniority |-> T_Senior_cap,
       experience_years |-> T_3_5, employment_type |-> T_contract,
       locations |-> <<T_europe>>],
      \* a required skill whose name has a '.' in it
      [required_skills |-> <<T_node_js, T_python>>, seniority |-> T_senior,
       experience_years |-> T_10plus, employment_type |-> None, locations |-> None] }

StrictRequirements ==
    { [required_skills |-> <<T_python, T_rag>>, preferred_skills |-> <<T_docker, T_aws>>,
       seniority |-> T_senior, location |-> None, employment_type |-> None,
       experience_years |-> None],
      [required_skills |-> <<>>, preferred_skills |-> <<>>,
       seniority |-> None, location |-> None, employment_type |-> None,
       experience_years |-> None],
      [required_skills |-> <<T_Python_cap>>, preferred_skills |-> <<T_docker>>,
       seniority |-> T_senior, location |-> T_europe, employment_type |-> T_full_time,
       experience_years |-> T_10plus],
      [required_skills |-> <<T_python>>,
       preferred_skills |-> <<T_docker, T_aws, T_azure, T_react, T_javascript>>,
       seniority |-> None, location |-> None, employment_type |-> None,
       experience_years |-> None] }

\* the bodies of POST /advanced-match: the same requirements, which cannot name a location
ApiRequirements == {r \in StrictRequirements : r.location = None}

StrictScripts == { <<TextReply>>, <<ServiceError>>, <<ServiceError, TextReply>> }

CulturalScripts ==
    { <<ServiceError>>, <<TextReply, ScoreReply(One)>>, <<ScoreReply(Zero), ScoreReply(Rat(2, 1))>> }

T_open == <<"o","p","e","n">>

CompanyCultures == { <<>>, T_open }

\* a weight vector with every weight 0
AllZeroCriteria == [k \in CriteriaKeys |-> Zero]

\* custom_criteria: none, weights that do not sum to 1, or all weights zero
CustomCriteria == { <<>>, [skill_match |-> One, cultural_fit |-> One], AllZeroCriteria }

\* the criteria_weights argument of CandidateRanker(): none, five weights that sum to
\* 2.5, or a vector that lacks four of the five criteria
ConstructorCriteria == { <<>>, [k \in CriteriaKeys |-> Half], [skill_match |-> One] }

-----------------------------------------------------------------------------
(* The state machine.                                                      *)
(*   dataset          self.dataset of the matchers, loaded from            *)
(*                    dataset.json when they are constructed               *)
(*   criteria_weights self.criteria_weights of the CandidateRanker         *)
(*   last             the call that has just returned, with what it        *)
(*                    returned; NoCall when the caller holds no result     *)
(*   prev             the call before last, when the lenient engine was    *)
(*                    called twice in a row                                *)
(*   startup          what dataset.json held when the program started and  *)
(*                    how each loader of it ended                          *)

NoCall == [op |-> "none"]

\* what dataset.json can hold: a list of records, nothing (no file), text that is not
\* JSON, a JSON object, or a JSON number
DatasetFiles == {"records", "missing", "invalid_json", "object", "number"}

\* the four loaders of dataset.json
Loaders == {"lenient_matcher", "strict_matcher", "searcher", "load_data"}

\* AdvancedCandidateMatcher._load_dataset of both engines: open() and json.load() with
\* no handler and no look at what was loaded
_load_dataset(file) ==
    CASE file = "missing"      -> [raised |-> TRUE, error |-> "FileNotFoundError",
                                   loaded |-> FALSE, file_after |-> file]
      [] file = "invalid_json" -> [raised |-> TRUE, error |-> "JSONDecodeError",
                                   loaded |-> FALSE, file_after |-> file]
      [] OTHER                 -> [raised |-> FALSE, error |-> "",
                                   loaded |-> TRUE, file_after |-> file]

\* AICandidateSearch._load_dataset: on FileNotFoundError it has CandidateGenerator
\* write a dataset file and then reads generator.dataset, an attribute the generator
\* does not have
AICandidateSearch_load_dataset(file) ==
    CASE file = "missing"      -> [raised |-> TRUE, error |-> "AttributeError",
                                   loaded |-> FALSE, file_after |-> "records"]
      [] file = "invalid_json" -> [raised |-> TRUE, error |-> "JSONDecodeError",
                                   loaded |-> FALSE, file_after |-> file]
      [] OTHER                 -> [raised |-> FALSE, error |-> "",
                                   loaded |-> TRUE, file_after |-> file]

\* load_data of fastapi_app with an empty cache: a list and a dict both pass the
\* isinstance check and are made the cached frame (the object of the model holds
\* lists, of which DataFrame makes columns)
load_data(file) ==
    CASE file = "missing"      -> [raised |-> TRUE, error |-> "FileNotFoundError",
                                   loaded |-> FALSE, file_after |-> file]
      [] file = "invalid_json" -> [raised |-> TRUE, error |-> "RuntimeError",
                                   loaded |-> FALSE, file_after |-> file]
      [] file = "number"       -> [raised |-> TRUE, error |-> "RuntimeError",
                                   loaded |-> FALSE, file_after |-> file]
      [] OTHER                 -> [raised |-> FALSE, error |-> "",
                                   loaded |-> TRUE, file_after |-> file]

LoadOutcome(loader, file) ==
    CASE loader = "searcher"  -> AICandidateSearch_load_dataset(file)
      [] loader = "load_data" -> load_data(file)
      [] OTHER                -> _load_dataset(file)

\* self.dataset of a matcher after json.load of the file; None when no matcher was made
LoadedValues(file) ==
    CASE file = "records" -> Datasets
      [] file = "object"  -> {[candidates |-> <<BaseCandidate>>]}
      [] file = "number"  -> {42}
      [] OTHER            -> {None}

\* the matchers hold a list they can go through
HasRecords == startup.file = "records"

Init ==
    /\ \E file \in DatasetFiles, criteria_weights_arg \in ConstructorCriteria :
          /\ startup = [file |-> file, outcome |-> [l \in Loaders |-> LoadOutcome(l, file)],
                        criteria_weights |-> CandidateRanker_init(criteria_weights_arg)]
          /\ dataset \in LoadedValues(file)
          /\ criteria_weights = CandidateRanker_init(criteria_weights_arg)
    /\ last = NoCall
    /\ prev = NoCall
    /\ temp_files = {}

\* (faulty variant) the loop takes the records out of self.dataset as it goes
DatasetAfterLenientMatch_Consumed(ds, req, top_n) == <<>>

\* match_candidates reads self.dataset and never assigns it or changes a record of it
DatasetAfterLenientMatch(ds, req, top_n) == ds

LenientCall(ds, req, top_n) ==
    [op |-> "lenient", request |-> req, top_n |-> top_n,
     result |-> LenientMatchCandidates(ds, req, top_n)]

\* a call of the lenient match_candidates
LenientMatch ==
    /\ HasRecords
    /\ last = NoCall
    /\ \E req \in LenientRequirements, top_n \in TopNs :
          /\ last' = LenientCall(dataset, req, top_n)
          /\ dataset' = DatasetAfterLenientMatch(dataset, req, top_n)
    /\ UNCHANGED <<criteria_weights, prev, startup, temp_files>>

\* a second call on the same matcher for the same requirement
LenientMatchAgain ==
    /\ last.op = "lenient"
    /\ prev = NoCall
    /\ \E top_n \in TopNs :
          /\ last' = LenientCall(dataset, last.request, top_n)
          /\ dataset' = DatasetAfterLenientMatch(dataset, last.request, top_n)
    /\ prev' = last
    /\ UNCHANGED <<criteria_weights, startup, temp_files>>

\* a call of the strict match_candidates
StrictMatch ==
    /\ HasRecords
    /\ last = NoCall
    /\ \E req \in StrictRequirements, top_n \in TopNs, script \in StrictScripts :
          \E run \in {StrictMatchCandidates(dataset, req, top_n, script)} :
              last' = [op |-> "strict", request |-> req, top_n |-> top_n,
                       result |-> run.result, analyzer_calls |-> run.analyzer_calls,
                       replies |-> run.replies]
    /\ UNCHANGED <<dataset, criteria_weights, prev, startup, temp_files>>

\* POST /advanced-match
ApiAdvancedMatch ==
    /\ HasRecords
    /\ last = NoCall
    /\ \E r \in ApiRequirements, top_n \in TopNs, script \in StrictScripts :
          LET body == [required_skills |-> r.required_skills,
                       preferred_skills |-> r.preferred_skills,
                       seniority |-> r.seniority,
                       experience_years |-> r.experience_years,
                       employment_type |-> r.employment_type,
                       top_n |-> top_n]
          IN  \E response \in {ApiAdvancedMatchResponse(dataset, body, script)} :
                last' = [op |-> "api", request |-> body, top_n |-> top_n,
                         result |-> response.matches, total |-> response.total,
                         analyzer_calls |-> response.analyzer_calls]
    /\ UNCHANGED <<dataset, criteria_weights, prev, startup, temp_files>>

\* rank_candidates on the matches the lenient engine has just returned
\* (process_matching of streamlit_app: asdict of each match, then rank)
RankMatches ==
    /\ last.op = "lenient"
    /\ prev = NoCall
    /\ \E company_culture \in CompanyCultures, custom_criteria \in CustomCriteria,
          script \in CulturalScripts :
          \E run \in {RankCandidates(last.result, criteria_weights, company_culture,
                                     custom_criteria, script)} :
              /\ last' = [op |-> "rank", candidates |-> last.result,
                          company_culture |-> company_culture,
                          custom_criteria |-> custom_criteria,
                          replies |-> CulturalReplies(last.result, company_culture, script),
                          raised |-> run.raised, result |-> run.result]
              /\ criteria_weights' = CriteriaWeightsAfter(criteria_weights, custom_criteria)
    /\ prev' = NoCall
    /\ UNCHANGED <<dataset, startup, temp_files>>

\* the caller is done with the result: results are not kept between requests
ReturnResponse ==
    /\ last # NoCall
    /\ last' = NoCall
    /\ prev' = NoCall
    /\ UNCHANGED <<dataset, criteria_weights, startup, temp_files>>

\* match_candidates of a matcher whose dataset.json held no list: `for candidate in
\* self.dataset` goes through the keys of the object, and candidate.get fails on the
\* first of them; a number cannot be gone through at all
MatchOnBadDataset ==
    /\ last = NoCall
    /\ startup.file \in {"object", "number"}
    /\ \E engine \in {"lenient_matcher", "strict_matcher"} :
          /\ startup.outcome[engine].loaded
          /\ last' = [op |-> "failed", engine |-> engine,
                      error |-> IF startup.file = "object" THEN "AttributeError"
                                ELSE "TypeError"]
    /\ UNCHANGED <<dataset, criteria_weights, prev, startup, temp_files>>

Next ==
    \/ MatchOnBadDataset
    \/ LenientMatch
    \/ LenientMatchAgain
    \/ StrictMatch
    \/ ApiAdvancedMatch
    \/ RankMatches
    \/ ReturnResponse

Spec == Init /\ [][Next]_vars

-----------------------------------------------------------------------------
(* The same program on a dataset whose records differ in their experience label *)

\* CandidateGenerator.experience_years: the labels generate_candidate draws from
CandidateGenerator_experience_years == <<T_1_3, T_3_5, T_5plus, T_10plus, T_15plus>>

T_7 == <<"7">>

T_10plus_years == <<"1","0","+"," ","y","e","a","r","s">>

\* the labels of the records: those of the generator, and three a hand-written
\* dataset.json may hold: a bare number, a label with a unit, and no label
ExperienceLabels == Range(CandidateGenerator_experience_years) \cup {T_7, T_10plus_years, <<>>}

LabelDatasets ==
    SeqsUpTo({[BaseCandidate EXCEPT !.experience_years = l] : l \in ExperienceLabels},
             MaxCandidates)

InitLabels ==
    /\ \E file \in DatasetFiles, criteria_weights_arg \in ConstructorCriteria :
          /\ startup = [file |-> file, outcome |-> [l \in Loaders |-> LoadOutcome(l, file)],
                        criteria_weights |-> CandidateRanker_init(criteria_weights_arg)]
          /\ dataset \in (IF file = "records" THEN LabelDatasets ELSE LoadedValues(file))
          /\ criteria_weights = CandidateRanker_init(criteria_weights_arg)
    /\ last = NoCall
    /\ prev = NoCall
    /\ temp_files = {}

SpecLabels == InitLabels /\ [][Next]_vars

-----------------------------------------------------------------------------
(* The conversational search: groq_search.AICandidateSearch.search_candidates *)

MaxSearchCandidates == 7

batch_size == 3

SearchNames == <<"Ava", "Ben", "Cleo", "Dev", "Eli", "Fay", "Gus", "Hal">>

\* the datasets searched: n records told apart by their name
SearchDatasets ==
    {[i \in 1..n |-> [BaseCandidate EXCEPT !.name = SearchNames[i]]] :
        n \in 0..MaxSearchCandidates}

T_blank == <<" ", " ">>

SearchQueries == {<<>>, T_blank, T_python}

\* query.strip() is empty
IsBlank(query) == \A i \in 1..Len(query) : query[i] = " "

\* what one chat.completions.create call can come back with: the call raises; the
\* content is not JSON; the content is a JSON object, with or without the keys
\* 'candidates' and 'reflex'; it is a JSON list; it is another JSON value
SearchPicks == {<<>>, <<[name |-> "Ava", reason |-> "fits"]>>}

SearchReplies ==
    {[kind |-> "raise"], [kind |-> "text"], [kind |-> "number"]}
        \cup {[kind |-> "dict", candidates |-> c, reflex |-> r] :
                 c \in SearchPicks, r \in BOOLEAN}
        \cup {[kind |-> "list", items |-> c] : c \in SearchPicks}

\* the reply ends the search without a result: the call raised (outer except) or
\* json.loads failed (inner except)
SearchFails(reply) == reply.kind \in {"raise", "text"}

\* isinstance(result, dict) and result.get('candidates')
ReturnsCandidates(result) == result.kind = "dict" /\ result.candidates # <<>>

\* (faulty variant) any JSON object without candidates is taken as a request for more
AsksForMore_AnyObject(result) == result.kind = "dict"

\* isinstance(result, dict) and result.get('reflex')
AsksForMore(result) == result.kind = "dict" /\ result.reflex

\* dataset[idx:idx+batch_size], idx counted from 0
BatchAt(ds, idx) == SubSeq(ds, idx + 1, Min(idx + batch_size, Len(ds)))

InitSearch ==
    /\ startup = [file |-> "records",
                  outcome |-> [l \in Loaders |-> LoadOutcome(l, "records")],
                  criteria_weights |-> CandidateRanker_init(<<>>)]
    /\ dataset \in SearchDatasets
    /\ criteria_weights = CandidateRanker_init(<<>>)
    /\ last = NoCall
    /\ prev = NoCall
    /\ temp_files = {}

\* search_candidates is called: a blank query returns [] at once
SearchStart ==
    /\ last = NoCall
    /\ \E query \in SearchQueries :
          last' = [op |-> "search", query |-> query,
                   pc |-> IF IsBlank(query) THEN "done" ELSE "loop",
                   idx |-> 0, offered |-> <<>>, replies |-> <<>>, result |-> <<>>]
    /\ UNCHANGED <<dataset, criteria_weights, prev, startup, temp_files>>

\* the head of `while idx < total`: the next batch is appended to the messages and
\* the analyzer is called, or the loop is left and [] returned
SearchOffer ==
    /\ last.op = "search"
    /\ last.pc = "loop"
    /\ last' = IF last.idx < Len(dataset)
               THEN [last EXCEPT !.pc = "call",
                                 !.offered = Append(@, BatchAt(dataset, last.idx))]
               ELSE [last EXCEPT !.pc = "done", !.result = <<>>]
    /\ UNCHANGED <<dataset, criteria_weights, prev, startup, temp_files>>

\* the call comes back and the rest of the loop body runs
SearchReply ==
    /\ last.op = "search"
    /\ last.pc = "call"
    /\ \E reply \in SearchReplies :
          last' =
            Bind([last EXCEPT !.replies = Append(@, reply)], LAMBDA s :
                IF SearchFails(reply) THEN [s EXCEPT !.pc = "done", !.result = <<>>]
                ELSE IF ReturnsCandidates(reply)
                     THEN [s EXCEPT !.pc = "done", !.result = reply.candidates]
                ELSE IF AsksForMore(reply)
                     THEN [s EXCEPT !.pc = "loop", !.idx = @ + batch_size]
                ELSE IF reply.kind = "list"
                     THEN [s EXCEPT !.pc = "done", !.result = reply.items]
                ELSE [s EXCEPT !.pc = "done", !.result = <<>>])
    /\ UNCHANGED <<dataset, criteria_weights, prev, startup, temp_files>>

\* the caller takes the list returned
SearchReturn ==
    /\ last.op = "search"
    /\ last.pc = "done"
    /\ last' = NoCall
    /\ UNCHANGED <<dataset, criteria_weights, prev, startup, temp_files>>

NextSearch ==
    \/ SearchStart
    \/ SearchOffer
    \/ SearchReply
    \/ SearchReturn

\* the interpreter runs the loop on, and every call made comes back
SpecSearch ==
    /\ InitSearch
    /\ [][NextSearch]_vars
    /\ WF_vars(SearchOffer)
    /\ WF_vars(SearchReply)

-----------------------------------------------------------------------------
(* The CV endpoints of fastapi_app: /analyze-cv and /compare-cvs *)

MaxTempFiles == 2

\* Path(filename).suffix of the names uploads come with
UploadNames == {"cv.pdf", "resume"}

PathSuffix(filename) == IF filename = "cv.pdf" THEN ".pdf" ELSE ""

\* Path(file.filename).suffix or ".cv" (".cv1" and ".cv2" in /compare-cvs)
SuffixOr(filename, default) ==
    IF PathSuffix(filename) # "" THEN PathSuffix(filename) ELSE default

\* the uploads of a request, each with the suffix its temporary file gets
CvRequests ==
    {[endpoint |-> "/analyze-cv", suffixes |-> <<SuffixOr(f, ".cv")>>] : f \in UploadNames}
        \cup {[endpoint |-> "/compare-cvs",
               suffixes |-> <<SuffixOr(f1, ".cv1"), SuffixOr(f2, ".cv2")>>] :
                 f1 \in UploadNames, f2 \in UploadNames}

\* tempfile.NamedTemporaryFile(delete=False, suffix=suffix): a file under a name
\* that no file on disk has
FreshTempFile(disk, suffix) ==
    [serial |-> CHOOSE n \in 1..(Cardinality(disk) + 1) :
                    /\ \A f \in disk : f.serial # n
                    /\ \A m \in 1..(n - 1) : \E f \in disk : f.serial = m,
     suffix |-> suffix]

\* a path variable that holds no path: unbound in /analyze-cv, None in /compare-cvs
NoPath == [serial |-> 0, suffix |-> ""]

\* the finally clause: every path variable that was assigned is unlinked; one that
\* was not (unbound in /analyze-cv, None in /compare-cvs) is passed over
AfterFinally(disk, tmp_paths) ==
    disk \ {tmp_paths[i] : i \in {j \in 1..Len(tmp_paths) : tmp_paths[j] # NoPath}}

InitCv ==
    /\ startup = [file |-> "records",
                  outcome |-> [l \in Loaders |-> LoadOutcome(l, "records")],
                  criteria_weights |-> CandidateRanker_init(<<>>)]
    /\ dataset = <<BaseCandidate>>
    /\ criteria_weights = CandidateRanker_init(<<>>)
    /\ last = NoCall
    /\ prev = NoCall
    /\ temp_files = {}

\* a request arrives; its path variables are not assigned yet
CvStart ==
    /\ last = NoCall
    /\ Cardinality(temp_files) < MaxTempFiles
    /\ \E request \in CvRequests :
          last' = [op |-> "cv", endpoint |-> request.endpoint,
                   suffixes |-> request.suffixes, pc |-> "create", k |-> 1,
                   open |-> NoPath,
                   tmp_paths |-> [i \in 1..Len(request.suffixes) |-> NoPath],
                   created |-> {}, status |-> 0]
    /\ UNCHANGED <<dataset, criteria_weights, prev, startup, temp_files>>

\* `with tempfile.NamedTemporaryFile(delete=False, suffix=...) as tmp`: the file is
\* created on disk, or the creation raises
CvCreate ==
    /\ last.op = "cv"
    /\ last.pc = "create"
    /\ \/ \E f \in {FreshTempFile(temp_files, last.suffixes[last.k])} :
             /\ temp_files' = temp_files \cup {f}
             /\ last' = [last EXCEPT !.pc = "write", !.open = f, !.created = @ \cup {f}]
       \/ /\ last' = [last EXCEPT !.pc = "finally", !.status = 500]
          /\ UNCHANGED temp_files
    /\ UNCHANGED <<dataset, criteria_weights, prev, startup>>

\* tmp.write(await upload.read()) and, after it, the assignment of the path
\* variable; when the read or the write raises, the with block closes the file,
\* which delete=False leaves on disk, and the assignment is not reached
CvWrite ==
    /\ last.op = "cv"
    /\ last.pc = "write"
    /\ \/ last' = [last EXCEPT !.tmp_paths[last.k] = last.open, !.open = NoPath,
                               !.k = @ + 1,
                               !.pc = IF last.k < Len(last.suffixes) THEN "create"
                                      ELSE "process"]
       \/ last' = [last EXCEPT !.open = NoPath, !.pc = "finally", !.status = 500]
    /\ UNCHANGED <<dataset, criteria_weights, prev, startup, temp_files>>

\* CVAnalyzer().analyze_cv or CVComparator().compare returns or raises
CvProcess ==
    /\ last.op = "cv"
    /\ last.pc = "process"
    /\ \E status \in {200, 500} : last' = [last EXCEPT !.pc = "finally", !.status = status]
    /\ UNCHANGED <<dataset, criteria_weights, prev, startup, temp_files>>

\* the finally clause
CvFinally ==
    /\ last.op = "cv"
    /\ last.pc = "finally"
    /\ temp_files' = AfterFinally(temp_files, last.tmp_paths)
    /\ last' = [last EXCEPT !.pc = "done"]
    /\ UNCHANGED <<dataset, criteria_weights, prev, startup>>

\* the response is sent
CvReturn ==
    /\ last.op = "cv"
    /\ last.pc = "done"
    /\ last' = NoCall
    /\ UNCHANGED <<dataset, criteria_weights, prev, startup, temp_files>>

NextCv ==
    \/ CvStart
    \/ CvCreate
    \/ CvWrite
    \/ CvProcess
    \/ CvFinally
    \/ CvReturn

SpecCv == InitCv /\ [][NextCv]_vars

-----------------------------------------------------------------------------
(* rank_candidates call by call: the cultural-fit call of each candidate is sent,
   and the loop goes on when chat.completions.create comes back *)

InitRanking ==
    /\ startup = [file |-> "records",
                  outcome |-> [l \in Loaders |-> LoadOutcome(l, "records")],
                  criteria_weights |-> CandidateRanker_init(<<>>)]
    /\ dataset \in Datasets
    /\ criteria_weights = CandidateRanker_init(<<>>)
    /\ last = NoCall
    /\ prev = NoCall
    /\ temp_files = {}

\* the candidate with its ranking_scores, given the analyzer's reply
RankedWith(candidate, company_culture, reply) ==
    ("ranking_scores" :> RankingScoresOf(candidate, criteria_weights,
                                         company_culture, reply).scores) @@ candidate

\* rank_candidates is called with the matches of the lenient engine.  neutral holds,
\* for each candidate, the entry it gets when no company culture is given: it
\* depends on the candidate alone
RankingStart ==
    /\ last = NoCall
    /\ \E req \in LenientRequirements, company_culture \in CompanyCultures :
          \E candidates \in {LenientMatchCandidates(dataset, req, MaxTopN)} :
              last' = [op |-> "ranking", pc |-> "score", i |-> 1,
                       candidates |-> candidates,
                       company_culture |-> company_culture,
                       neutral |-> [i \in 1..Len(candidates) |->
                                       RankedWith(candidates[i], <<>>, ServiceError)],
                       scored |-> <<>>, result |-> <<>>]
    /\ UNCHANGED <<dataset, criteria_weights, prev, startup, temp_files>>

\* the loop body up to the cultural-fit score: without a company culture the score
\* is 0.5 and the candidate is done; with one, _calculate_cultural_fit sends its
\* request, which carries no timeout, and waits for the reply
RankingScore ==
    /\ last.op = "ranking"
    /\ last.pc = "score"
    /\ last.i <= Len(last.candidates)
    /\ \/ /\ Truthy(last.company_culture)
          /\ last' = [last EXCEPT !.pc = "waiting"]
       \/ /\ ~Truthy(last.company_culture)
          /\ last' = [last EXCEPT !.scored = Append(@, last.neutral[last.i]), !.i = @ + 1]
    /\ UNCHANGED <<dataset, criteria_weights, prev, startup, temp_files>>

\* chat.completions.create comes back, with a reply or with an exception, and the
\* rest of the loop body runs
RankingReply ==
    /\ last.op = "ranking"
    /\ last.pc = "waiting"
    /\ \E reply \in {ServiceError, TextReply, ScoreReply(One)} :
          \E ranked \in {RankedWith(last.candidates[last.i], last.company_culture, reply)} :
              last' = [last EXCEPT !.pc = "score", !.scored = Append(@, ranked), !.i = @ + 1]
    /\ UNCHANGED <<dataset, criteria_weights, prev, startup, temp_files>>

\* the loop is over: the list is sorted and returned
RankingFinish ==
    /\ last.op = "ranking"
    /\ last.pc = "score"
    /\ last.i > Len(last.candidates)
    /\ \E sorted \in {SortDesc(KeyedByOverall(last.scored))} :
          last' = [last EXCEPT !.pc = "done", !.result = sorted]
    /\ UNCHANGED <<dataset, criteria_weights, prev, startup, temp_files>>

\* the caller takes the list
RankingReturn ==
    /\ last.op = "ranking"
    /\ last.pc = "done"
    /\ last' = NoCall
    /\ UNCHANGED <<dataset, criteria_weights, prev, startup, temp_files>>

NextRanking ==
    \/ RankingStart
    \/ RankingScore
    \/ RankingReply
    \/ RankingFinish
    \/ RankingReturn

\* the interpreter runs the loop on; nothing in the program makes a pending
\* chat.completions.create come back, so RankingReply is under no fairness
SpecRanking ==
    /\ InitRanking
    /\ [][NextRanking]_vars
    /\ WF_vars(RankingScore)
    /\ WF_vars(RankingFinish)


-----------------------------------------------------------------------------
(* Properties *)

IsMatchCall == last.op \in {"lenient", "strict", "api"}

\* the score a returned record is ranked by
RankedScore(r) ==
    IF last.op = "lenient" THEN r.match_score
    ELSE IF last.op = "rank" THEN r.ranking_scores.overall
    ELSE r.score

IsPrefixOf(short, long) ==
    Len(short) <= Len(long) /\ short = SubSeq(long, 1, Len(short))

\* C1: every ranked list returned (lenient match_candidates by match_score, strict
\* match_candidates and /advanced-match by score, rank_candidates by
\* ranking_scores.overall) is in non-increasing score order.
C1_RankedListsDescending ==
    (IsMatchCall \/ (last.op = "rank" /\ ~last.raised)) =>
        \A i \in 1..(Len(last.result) - 1) :
            RatLE(RankedScore(last.result[i + 1]), RankedScore(last.result[i]))

\* the sort moved a record forward: the second dataset record outscored the first
C1_Witness ==
    /\ last.op = "lenient"
    /\ Len(last.result) = 2
    /\ last.result[1].idx = 2
    /\ RatLT(last.result[2].match_score, last.result[1].match_score)

\* C2: the sort of match_candidates is stable: of two returned candidates with exactly
\* the same score, the one earlier in the dataset comes first (both engines).
C2_StableSort ==
    last.op \in {"lenient", "strict"} =>
        \A i, j \in 1..Len(last.result) :
            (i < j /\ RankedScore(last.result[i]) = RankedScore(last.result[j]))
                => last.result[i].idx < last.result[j].idx

\* two different records with the same score were returned by the lenient engine
C2_Witness ==
    /\ last.op = "lenient"
    /\ Len(last.result) = 2
    /\ last.result[1].match_score = last.result[2].match_score
    /\ last.result[1].skills # last.result[2].skills

\* C3: truncation law: for the same dataset and requirement and k >= 0, the list
\* returned for top_n = k is a prefix of the list returned for top_n = k + 1.
C3_TruncationPrefix ==
    (last.op = "lenient" /\ prev.op = "lenient" /\ prev.request = last.request) =>
        /\ (prev.top_n >= 0 /\ last.top_n = prev.top_n + 1)
              => IsPrefixOf(prev.result, last.result)
        /\ (last.top_n >= 0 /\ prev.top_n = last.top_n + 1)
              => IsPrefixOf(last.result, prev.result)

\* top_n = 1 and then top_n = 2 on a dataset whose second record scores higher
C3_Witness ==
    /\ last.op = "lenient" /\ prev.op = "lenient"
    /\ prev.top_n = 1 /\ last.top_n = 2
    /\ Len(prev.result) = 1 /\ Len(last.result) = 2
    /\ last.result[1].idx = 2

\* C4: for every top_n <= 0, match_candidates (both engines, and through
\* /advanced-match) returns an empty list.
C4_NonPositiveTopNEmpty ==
    (IsMatchCall /\ last.top_n <= 0) => last.result = <<>>

\* C5: the lenient engine never excludes a candidate: for top_n >= N the result holds
\* exactly one record per dataset record, and for 0 <= top_n < N exactly top_n records.
C5_LenientNeverExcludes ==
    (last.op = "lenient" /\ last.top_n >= 0) =>
        /\ Len(last.result) = Min(last.top_n, Len(dataset))
        /\ \A i, j \in 1..Len(last.result) :
              i # j => last.result[i].idx # last.result[j].idx
        /\ \A i \in 1..Len(last.result) :
              /\ last.result[i].idx \in 1..Len(dataset)
              /\ last.result[i].skills = Get(dataset[last.result[i].idx], "skills", <<>>)
        /\ last.top_n >= Len(dataset)
              => {last.result[i].idx : i \in 1..Len(last.result)} = 1..Len(dataset)

\* the whole pool came back, with a candidate in it that lacks a required skill
C5_Witness ==
    /\ last.op = "lenient"
    /\ Len(dataset) = 2
    /\ last.top_n >= Len(dataset)
    /\ \E i \in 1..Len(last.result) : last.result[i].skill_gaps # <<>>

\* the record lacks a required skill, compared case-insensitively
LacksRequiredSkill(candidate, required_skills) ==
    \E j \in 1..Len(required_skills) :
        \A k \in 1..Len(Get(candidate, "skills", <<>>)) :
            Lower(candidate.skills[k]) # Lower(required_skills[j])

\* C6: in the strict engine a candidate that lacks a required skill (compared
\* case-insensitively) never appears in the result, for any top_n; every returned
\* ScoredCandidate has an empty missing_skills list.
C6_StrictExcludesMissing ==
    last.op = "strict" =>
        \A i \in 1..Len(last.result) :
            /\ last.result[i].missing_skills = <<>>
            /\ last.result[i].candidate = dataset[last.result[i].idx]
            /\ ~LacksRequiredSkill(last.result[i].candidate, last.request.required_skills)

\* a record that passes the filters but lacks a required skill stayed out, while one
\* that has the skills only up to letter case came back
C6_Witness ==
    /\ last.op = "strict"
    /\ \E idx \in 1..Len(dataset) :
          /\ PassesFilters(dataset[idx], last.request)
          /\ LacksRequiredSkill(dataset[idx], last.request.required_skills)
          /\ last.top_n >= Len(dataset)
    /\ \E i \in 1..Len(last.result) :
          \E j \in 1..Len(last.request.required_skills) :
              last.request.required_skills[j] \notin Range(last.result[i].candidate.skills)

\* C7: the matched-skill list and the missing-skill list of a result have no element
\* in common (lenient: skill_matches and skill_gaps; strict: skill_matches and
\* missing_skills).
C7_MatchedAndMissingDisjoint ==
    IsMatchCall =>
        \A i \in 1..Len(last.result) :
            Range(last.result[i].skill_matches)
              \cap Range(IF last.op = "lenient" THEN last.result[i].skill_gaps
                         ELSE last.result[i].missing_skills) = {}

\* a lenient result with a matched skill and a gap
C7_Witness ==
    /\ last.op = "lenient"
    /\ \E i \in 1..Len(last.result) :
          last.result[i].skill_matches # <<>> /\ last.result[i].skill_gaps # <<>>

\* the two matches are of candidates that differ at most in their skills
SameButSkills(a, b) ==
    /\ a.name = b.name
    /\ a.seniority = b.seniority
    /\ a.experience_years = b.experience_years
    /\ a.employment_type = b.employment_type
    /\ a.location = b.location

\* longer is shorter with the one skill g put in at some place
IsWithSkillAdded(longer, shorter, g) ==
    \E p \in 1..Len(longer) :
        /\ longer[p] = g
        /\ shorter = SubSeq(longer, 1, p - 1) \o SubSeq(longer, p + 1, Len(longer))

\* the skill sub-score of a returned match
SkillSubScore(m) == _calculate_skill_similarity(last.request.required_skills, m.skills).score

\* b is a with a skill added that was a gap of a
AddsGapSkill(a, b) ==
    /\ SameButSkills(a, b)
    /\ \E p \in 1..Len(b.skills) :
          /\ IsWithSkillAdded(b.skills, a.skills, b.skills[p])
          /\ _preprocess_text(b.skills[p]) \in Range(a.skill_gaps)

\* C8: in the lenient engine, when a required skill that is in a candidate's gaps is
\* added to the candidate's skills and nothing else changes, the skill sub-score
\* strictly increases (or stays 1.0) and match_score does not decrease.
C8_AddingGapSkillMonotone ==
    last.op = "lenient" =>
        \A i, j \in 1..Len(last.result) :
            AddsGapSkill(last.result[i], last.result[j]) =>
                /\ \/ RatLT(SkillSubScore(last.result[i]), SkillSubScore(last.result[j]))
                   \/ (SkillSubScore(last.result[i]) = One /\ SkillSubScore(last.result[j]) = One)
                /\ RatLE(last.result[i].match_score, last.result[j].match_score)

\* a candidate and the same candidate with the missing skill added were both matched
C8_Witness ==
    /\ last.op = "lenient"
    /\ \E i, j \in 1..Len(last.result) : AddsGapSkill(last.result[i], last.result[j])

\* the number of required skills the match found in the candidate
MatchedCount(m) == Len(m.skill_matches)

\* the table weight, in tenths, of the required skills the match found: those not in
\* its gaps (1.0 for a skill the table does not hold)
RECURSIVE TenthsOutsideGaps(_, _)
TenthsOutsideGaps(required, gaps) ==
    IF required = <<>> THEN 0
    ELSE (IF Head(required) \in Range(gaps) THEN 0
          ELSE IF \E e \in SkillWeightTable : e[1] = Head(required)
               THEN (CHOOSE e \in SkillWeightTable : e[1] = Head(required))[2]
               ELSE 10)
         + TenthsOutsideGaps(Tail(required), gaps)

MatchedWeightOf(m) ==
    IF Truthy(last.request.required_skills)
    THEN TenthsOutsideGaps(PreprocessAll(last.request.required_skills), m.skill_gaps)
    ELSE 0

TableTenths(skill) ==
    IF \E e \in SkillWeightTable : e[1] = Lower(skill)
    THEN (CHOOSE e \in SkillWeightTable : e[1] = Lower(skill))[2]
    ELSE IF \E e \in SkillWeightTable : e[1] = _preprocess_text(skill)
    THEN (CHOOSE e \in SkillWeightTable : e[1] = _preprocess_text(skill))[2]
    ELSE 10

\* the sum of the table weights of the required skills from position i on: of all of
\* them, or of those the match found (those that are not among its gaps)
RECURSIVE TableTenthsFrom(_, _, _, _)
TableTenthsFrom(required, i, gaps, only_matched) ==
    IF i > Len(required) THEN 0
    ELSE (IF only_matched /\ _preprocess_text(required[i]) \in Range(gaps) THEN 0
          ELSE TableTenths(required[i]))
         + TableTenthsFrom(required, i + 1, gaps, only_matched)

\* C11 as stated: the lenient skill sub-score is the sum of the table weights of the
\* matched required skills over the sum of the table weights of all required skills
\* (1.0 for a skill not in the table).
C11_SkillScoreIsTableWeightRatio ==
    (last.op = "lenient" /\ Truthy(last.request.required_skills)) =>
        \A i \in 1..Len(last.result) :
            SkillSubScore(last.result[i])
              = Rat(TableTenthsFrom(last.request.required_skills, 1,
                                    last.result[i].skill_gaps, TRUE),
                    TableTenthsFrom(last.request.required_skills, 1, <<>>, FALSE))


\* C12: when the required-skill list is empty, the lenient skill matcher gives every
\* candidate the sub-score 1.0 with an empty gap list and an empty match list,
\* whatever the candidate's skills; match_score is computed with that 1.0.
C12_EmptyRequirementPerfectSkillScore ==
    (last.op = "lenient" /\ last.request.required_skills = <<>>) =>
        \A i \in 1..Len(last.result) :
            /\ SkillSubScore(last.result[i]) = One
            /\ last.result[i].skill_gaps = <<>>
            /\ last.result[i].skill_matches = <<>>
            /\ last.result[i].match_score
                 = TotalScore(One, last.result[i].experience_match,
                              last.result[i].seniority_match,
                              last.result[i].employment_match,
                              last.result[i].location_match)

\* nothing was required of two candidates, one with skills and one whose only skill is
\* punctuation
C12_Witness ==
    /\ last.op = "lenient"
    /\ last.request.required_skills = <<>>
    /\ \E i, j \in 1..Len(last.result) :
          /\ Len(last.result[i].skills) > 1
          /\ last.result[j].skills = <<T_bangs>>


\* the rank tables of the two ordinal matchers as the claim gives them; a label is
\* looked up whatever its letter case, and 0 stands for "not in the table"
ExperienceRank(label) ==
    CASE Lower(label) = <<"1", "-", "3">> -> 1
      [] Lower(label) = <<"3", "-", "5">> -> 2
      [] Lower(label) = <<"5", "-", "1", "0">> -> 3
      [] Lower(label) = <<"1", "0", "+">> -> 4
      [] Lower(label) = <<"1", "5", "+">> -> 5
      [] OTHER -> 0

SeniorityRank(label) ==
    CASE Lower(label) = <<"j", "u", "n", "i", "o", "r">> -> 1
      [] Lower(label) = <<"m", "i", "d", "l", "e", "v", "e", "l">> -> 2
      [] Lower(label) = <<"s", "e", "n", "i", "o", "r">> -> 3
      [] OTHER -> 0

\* score is what the claim gives for the two ranks
IsOrdinalScore(score, req_rank, cand_rank) ==
    IF req_rank = 0 \/ cand_rank = 0 THEN score = Half
    ELSE IF cand_rank >= req_rank THEN score = One
    ELSE /\ score = RatAdd(Rat(1, 10), RatMul(Rat(9, 10), Rat(cand_rank, req_rank)))
         /\ RatLE(Rat(1, 10), score)
         /\ RatLT(score, One)

\* C13: the experience matcher (1-3:1, 3-5:2, 5-10:3, 10+:4, 15+:5) and the seniority
\* matcher (junior:1, midlevel:2, senior:3) return 0.5 if either label is not in the
\* table, 1.0 if the candidate's rank is >= the required one, and otherwise
\* 0.1 + 0.9 * (cand_rank / req_rank), which is >= 0.1 and < 1.0.
C13_OrdinalMatchers ==
    last.op = "lenient" =>
        \A i \in 1..Len(last.result) :
            /\ Truthy(last.request.experience_years) =>
                  IsOrdinalScore(last.result[i].experience_match,
                                 ExperienceRank(last.request.experience_years),
                                 ExperienceRank(last.result[i].experience_years))
            /\ Truthy(last.request.seniority) =>
                  IsOrdinalScore(last.result[i].seniority_match,
                                 SeniorityRank(last.request.seniority),
                                 SeniorityRank(last.result[i].seniority))

\* required 10+ and senior: a junior with 1-3 years got 0.1 + 0.9 * 1/4 and
\* 0.1 + 0.9 * 1/3, a record without the two labels got 0.5 twice
C13_Witness ==
    /\ last.op = "lenient"
    /\ last.request.experience_years = T_10plus
    /\ last.request.seniority = T_senior
    /\ \E i, j \in 1..Len(last.result) :
          /\ last.result[i].experience_years = T_1_3
          /\ last.result[i].experience_match = Rat(13, 40)
          /\ last.result[i].seniority_match = Rat(4, 10)
          /\ last.result[j].experience_match = Half
          /\ last.result[j].seniority_match = Half


\* the location sub-score as the claim gives it
LocationScoreClaimed(required_locations, candidate_locations) ==
    IF ~Truthy(required_locations) THEN One
    ELSE IF \E r \in Range(required_locations), c \in Range(candidate_locations) :
               Lower(r) = Lower(c) THEN One
    ELSE IF \E x \in Range(required_locations) \cup Range(candidate_locations) :
               Lower(x) = <<"r", "e", "m", "o", "t", "e">> THEN Rat(8, 10)
    ELSE Zero

\* C14: the location matcher, comparing case-insensitively, returns 1.0 for an empty
\* requirement, 1.0 if a required location is among the candidate's, otherwise 0.8 if
\* 'remote' is among the required or the candidate's locations, otherwise 0.0.
C14_LocationMatcher ==
    last.op = "lenient" =>
        \A i \in 1..Len(last.result) :
            last.result[i].location_match
              = LocationScoreClaimed(last.request.locations, last.result[i].location)

\* required [Remote] against a candidate in [Europe] gave 0.8
C14_Witness ==
    /\ last.op = "lenient"
    /\ Truthy(last.request.locations)
    /\ last.request.locations = <<T_Remote_cap>>
    /\ \E i \in 1..Len(last.result) :
          /\ last.result[i].location = <<T_Europe_cap>>
          /\ last.result[i].location_match = Rat(8, 10)


\* C15: every overall score stays inside its engine's scale: a score of the strict
\* engine is in [0, 100], also when the required-skill, preferred-skill, seniority and
\* experience parts are all awarded, and a match_score of the lenient engine is in
\* [0, 1].
C15_ScoresWithinScale ==
    /\ last.op \in {"strict", "api"} =>
          \A i \in 1..Len(last.result) :
              RatLE(Zero, last.result[i].score) /\ RatLE(last.result[i].score, Rat(100, 1))
    /\ last.op = "lenient" =>
          \A i \in 1..Len(last.result) :
              RatLE(Zero, last.result[i].match_score) /\ RatLE(last.result[i].match_score, One)

\* all four parts were asked for and awarded: the strict score is exactly 100
C15_Witness ==
    /\ last.op = "strict"
    /\ last.request.required_skills # <<>>
    /\ last.request.preferred_skills # <<>>
    /\ Truthy(last.request.seniority)
    /\ Truthy(last.request.experience_years)
    /\ \E i \in 1..Len(last.result) : last.result[i].score = Rat(100, 1)


\* the sub-score of one requirement dimension: the matcher's result, or the full 1.0
\* when the caller did not supply the dimension
SuppliedOrFull(required, score) == IF Truthy(required) THEN score ELSE One

\* C16: in the lenient engine match_score equals (0.5*skill + 0.2*experience +
\* 0.15*seniority + 0.1*employment + 0.05*location) divided by the sum of those
\* weights, each sub-score being its matcher's result, or 1.0 for a requirement
\* dimension the caller did not supply.
C16_MatchScoreFormula ==
    last.op = "lenient" =>
        \A i \in 1..Len(last.result) :
            LET m == last.result[i]
                r == last.request
                experience == SuppliedOrFull(r.experience_years,
                                  _calculate_experience_match(r.experience_years,
                                                              m.experience_years))
                seniority  == SuppliedOrFull(r.seniority,
                                  _calculate_seniority_match(r.seniority, m.seniority))
                employment == SuppliedOrFull(r.employment_type,
                                  _calculate_employment_match(r.employment_type,
                                                              m.employment_type))
                location   == SuppliedOrFull(r.locations,
                                  _calculate_location_match(r.locations, m.location))
            IN  /\ m.experience_match = experience
                /\ m.seniority_match = seniority
                /\ m.employment_match = employment
                /\ m.location_match = location
                /\ m.match_score
                     = RatDiv(RatAdd(RatMul(Rat(50, 100), SkillSubScore(m)),
                              RatAdd(RatMul(Rat(20, 100), experience),
                              RatAdd(RatMul(Rat(15, 100), seniority),
                              RatAdd(RatMul(Rat(10, 100), employment),
                                     RatMul(Rat(5, 100), location))))),
                              Rat(50 + 20 + 15 + 10 + 5, 100))

\* every dimension was supplied and the five sub-scores of one match are not all equal
C16_Witness ==
    /\ last.op = "lenient"
    /\ Truthy(last.request.experience_years)
    /\ Truthy(last.request.seniority)
    /\ Truthy(last.request.employment_type)
    /\ Truthy(last.request.locations)
    /\ \E i \in 1..Len(last.result) :
          /\ last.result[i].skill_gaps # <<>>
          /\ last.result[i].experience_match = One
          /\ last.result[i].employment_match = Zero
          /\ RatLT(Zero, last.result[i].match_score)


\* the five sub-scores rank_candidates weighs for a ranked candidate; the cultural-fit
\* score is read from ranking_scores, where it is kept to two decimals
SubScoresOf(c) ==
    [skill_match  |-> IF "match_score" \in DOMAIN c THEN c.match_score ELSE Half,
     experience   |-> _calculate_experience_score(Get(c, "experience_years", <<>>)).value,
     seniority    |-> _calculate_seniority_score(Lower(Get(c, "seniority", <<>>))),
     education    |-> Rat(7, 10),
     cultural_fit |-> c.ranking_scores.cultural_fit]

\* sum(score_i * weight_i) and sum(weight_i) over the five criteria
WeightedSum(scores, weights) ==
    RatAdd(RatMul(scores.skill_match, weights.skill_match),
    RatAdd(RatMul(scores.experience, weights.experience),
    RatAdd(RatMul(scores.seniority, weights.seniority),
    RatAdd(RatMul(scores.education, weights.education),
           RatMul(scores.cultural_fit, weights.cultural_fit)))))

WeightSum(weights) == WeightedSum([k \in CriteriaKeys |-> One], weights)

\* C17 as stated: with weights that do not sum to 1, given to the constructor or as
\* custom_criteria, the overall score of each ranked candidate is
\* sum(score_i * weight_i) / sum(weight_i), and so is in [0, 1] when every sub-score
\* is.
C17_OverallIsNormalised ==
    (last.op = "rank" /\ ~last.raised /\ CriteriaKeys \subseteq DOMAIN criteria_weights
     /\ RatLT(Zero, WeightSum(criteria_weights))) =>
        \A i \in 1..Len(last.result) :
            LET scores == SubScoresOf(last.result[i])
            IN  /\ last.result[i].ranking_scores.overall
                     = Round2(RatDiv(WeightedSum(scores, criteria_weights),
                                     WeightSum(criteria_weights)))
                /\ (\A k \in CriteriaKeys : RatLE(Zero, scores[k]) /\ RatLE(scores[k], One))
                      => RatLE(last.result[i].ranking_scores.overall, One)


\* a weight vector that was given and is invalid: all its weights are zero, or it
\* lacks one of the five criteria
IsInvalidWeights(weights) ==
    /\ DOMAIN weights # {}
    /\ \/ \A k \in DOMAIN weights : weights[k] = Zero
       \/ ~(CriteriaKeys \subseteq DOMAIN weights)

\* C18 as stated: an invalid weight vector, given to the constructor (and so held by
\* the ranker) or passed as custom_criteria, makes the call fail with an error instead
\* of producing a ranking.
C18_InvalidWeightsRejected ==
    (last.op = "rank"
     /\ (IsInvalidWeights(criteria_weights) \/ IsInvalidWeights(last.custom_criteria)))
        => last.raised


\* the six fields of a candidate record
CandidateFields ==
    {"name", "seniority", "skills", "location", "employment_type", "experience_years"}

\* the field of a dataset record, or what is put in its place when the record lacks
\* it: 'Unknown' for the name, the empty text or the empty list for the others
FieldOrDefault(record, field) ==
    IF field \in DOMAIN record THEN record[field]
    ELSE IF field = "name" THEN "Unknown" ELSE <<>>

\* the match is the one of the dataset record at idx: its fields with the defaults put
\* in, and the score the record gets when it is matched on its own
IsMatchOfRecord(m, idx) ==
    /\ m.idx = idx
    /\ \A f \in CandidateFields : m[f] = FieldOrDefault(dataset[idx], f)
    /\ m.match_score = LenientMatchOf(<<dataset[idx]>>, 1, last.request).match_score

\* no filter of the strict engine applies and no skill is required
RequiresNothing(req) ==
    /\ req.required_skills = <<>>
    /\ ~Truthy(req.seniority)
    /\ ~Truthy(req.location)
    /\ ~Truthy(req.employment_type)
    /\ ~Truthy(req.experience_years)

C20_BadDatasetFatalAtLoad ==
    startup.file # "records" =>
        \A l \in Loaders : startup.outcome[l].raised /\ ~startup.outcome[l].loaded


\* the reply is a failed call: the analyzer raised, or its output holds no score
IsFailedReply(reply) == reply.kind # "score"

\* the position in the input list of a ranked candidate
InputPosition(r) == CHOOSE p \in 1..Len(last.candidates) : last.candidates[p].idx = r.idx

\* C21: in rank_candidates the cultural-fit sub-score is 0.5 when no company culture
\* is given and 0.5 when the analyzer call for the candidate failed; a failed call does
\* not abort the batch: every input candidate gets ranking_scores, and each
\* candidate's scores depend on its own reply only.
C21_CulturalFitDefaultsAndBatchSurvives ==
    (last.op = "rank" /\ CriteriaKeys \subseteq DOMAIN criteria_weights) =>
        /\ ~last.raised
        /\ Len(last.result) = Len(last.candidates)
        /\ \A i \in 1..Len(last.result) :
              LET r == last.result[i]
                  p == InputPosition(r)
              IN  /\ \E q \in 1..Len(last.candidates) : last.candidates[q].idx = r.idx
                  /\ "ranking_scores" \in DOMAIN r
                  /\ ~Truthy(last.company_culture) => r.ranking_scores.cultural_fit = Half
                  /\ (Truthy(last.company_culture) /\ IsFailedReply(last.replies[p]))
                        => r.ranking_scores.cultural_fit = Half
                  /\ r.ranking_scores
                       = RankingScoresOf(last.candidates[p], criteria_weights,
                                         last.company_culture,
                                         IF Truthy(last.company_culture)
                                         THEN last.replies[p] ELSE ServiceError).scores

\* the call for the first candidate failed and the one for the second gave a score:
\* both are ranked, the first with 0.5 and the second with the analyzer's score
C21_Witness ==
    /\ last.op = "rank"
    /\ ~last.raised
    /\ Truthy(last.company_culture)
    /\ Len(last.candidates) = 2
    /\ IsFailedReply(last.replies[1])
    /\ ~IsFailedReply(last.replies[2])
    /\ \E i, j \in 1..2 :
          /\ last.result[i].idx = last.candidates[1].idx
          /\ last.result[i].ranking_scores.cultural_fit = Half
          /\ last.result[j].idx = last.candidates[2].idx
          /\ last.result[j].ranking_scores.cultural_fit = One


\* C22 as stated: whatever number the analyzer returns as cultural_fit_score, the
\* cultural_fit value rank_candidates blends into a candidate's overall score lies in
\* [0, 1].
C22_CulturalFitBounded ==
    (last.op = "rank" /\ ~last.raised) =>
        \A i \in 1..Len(last.result) :
            /\ RatLE(Zero, last.result[i].ranking_scores.cultural_fit)
            /\ RatLE(last.result[i].ranking_scores.cultural_fit, One)


\* the answers the analyzer gave to the calls made for the returned candidate r
StrictRepliesOf(r) ==
    CHOOSE e \in Range(last.replies) : e.idx = r.idx

\* C23: in the strict engine a failed analyzer call never makes match_candidates
\* raise and never changes who is returned or with which score: the result has the
\* same candidates, in the same order and with the same scores, as the run in which
\* every call succeeds; a candidate whose skill-gap call failed carries an error record
\* as skill_gap_analysis, and one whose interview-question call failed carries the
\* templated fallback questions, one per requested skill and at most 5.
C23_StrictSurvivesAnalyzerFailure ==
    last.op = "strict" =>
        LET ok  == StrictMatchCandidates(dataset, last.request, last.top_n, <<TextReply>>).result
            req == LowerAll(last.request.required_skills)
                       \o LowerAll(last.request.preferred_skills)
        IN  /\ Len(last.result) = Len(ok)
            /\ \A i \in 1..Len(last.result) :
                  LET r  == last.result[i]
                      an == StrictRepliesOf(r)
                  IN  /\ r.idx = ok[i].idx
                      /\ r.candidate = ok[i].candidate
                      /\ r.score = ok[i].score
                      /\ (an.gap_calls = 1 /\ an.gap.kind = "error")
                            => DOMAIN r.skill_gap_analysis = {"error"}
                      /\ an.questions.kind = "error"
                            => /\ r.interview_questions.source = "fallback"
                               /\ Len(r.interview_questions.about) = Min(5, Len(req))
                               /\ IsPrefixOf(r.interview_questions.about, req)

\* a returned candidate whose skill-gap call and interview-question call both failed,
\* for a request naming more than five skills
C23_Witness ==
    /\ last.op = "strict"
    /\ Len(last.request.required_skills) + Len(last.request.preferred_skills) > 5
    /\ \E i \in 1..Len(last.result) :
          LET an == StrictRepliesOf(last.result[i])
          IN  /\ an.gap_calls = 1
              /\ an.gap.kind = "error"
              /\ an.questions.kind = "error"
              /\ last.result[i].score # Zero


\* C29 as stated: one strict match_candidates call with top_n = k makes at most 2*k
\* analyzer calls, all of them for candidates that are returned: none is made for a
\* candidate cut off by the top_n truncation.
C29_AnalyzerCallsOnlyForReturned ==
    (last.op = "strict" /\ last.top_n >= 0) =>
        /\ last.analyzer_calls <= 2 * last.top_n
        /\ \A j \in 1..Len(last.replies) :
              \E i \in 1..Len(last.result) : last.result[i].idx = last.replies[j].idx


\* C26 as stated: a rank_candidates call that passes no custom_criteria scores the
\* candidates with the weights the CandidateRanker was constructed with, whatever
\* custom_criteria earlier calls on the same ranker were given.
C26_CustomCriteriaOneCallOnly ==
    (/\ last.op = "rank"
     /\ DOMAIN last.custom_criteria = {}
     /\ CriteriaKeys \subseteq DOMAIN startup.criteria_weights) =>
        /\ ~last.raised
        /\ \A i \in 1..Len(last.result) :
              LET r == last.result[i]
                  p == InputPosition(r)
              IN  r.ranking_scores =
                      RankingScoresOf(last.candidates[p], startup.criteria_weights,
                          last.company_culture,
                          IF Truthy(last.company_culture) THEN last.replies[p]
                          ELSE ServiceError).scores


\* the digits an experience label starts with
RECURSIVE LeadingDigits(_)
LeadingDigits(text) ==
    IF text = <<>> \/ Head(text) \notin DigitChars THEN <<>>
    ELSE <<Head(text)>> \o LeadingDigits(Tail(text))

\* C25 as stated: rank_candidates raises for no experience label; an empty label
\* scores 0.5 for experience, and a label that starts with a number (a range, an open
\* bucket or a bare number) scores that number divided by 20, clamped to [0, 1].
C25_ExperienceScoreLeadingNumber ==
    (last.op = "rank" /\ CriteriaKeys \subseteq DOMAIN criteria_weights) =>
        /\ ~last.raised
        /\ \A i \in 1..Len(last.result) :
              LET r     == last.result[i]
                  label == r.experience_years
                  lead  == LeadingDigits(label)
              IN  /\ label = <<>> => r.ranking_scores.experience = Half
                  /\ lead # <<>> =>
                        r.ranking_scores.experience =
                            RatMin(One, RatMax(Zero, Rat(DigitsValue(lead, 0), 20)))

\* C30 as stated: every label of the generator has a rank in the experience matcher's
\* table, so a candidate with a generated label is not given the 0.5 default of an
\* unknown label against a requirement whose label is in the table.
C30_GeneratedLabelsRanked ==
    (/\ last.op = "lenient"
     /\ Truthy(last.request.experience_years)
     /\ exp_map_get(last.request.experience_years) # 0) =>
        \A i \in 1..Len(last.result) :
            last.result[i].experience_years \in Range(CandidateGenerator_experience_years)
                => /\ exp_map_get(last.result[i].experience_years) # 0
                   /\ last.result[i].experience_match # Half


\* ceil(n / 3)
CeilThird(n) == (n + 2) \div 3

\* what search_candidates has done so far is as the claim says
SearchAsClaimed ==
    last.op = "search" =>
        LET calls == Len(last.offered)
            n     == Len(dataset)
        IN  /\ calls <= CeilThird(n)
            /\ IsBlank(last.query) => (calls = 0 /\ last.pc = "done" /\ last.result = <<>>)
            \* batches of 3 in dataset order, each offered once
            /\ \A j \in 1..calls :
                  last.offered[j] = SubSeq(dataset, 3 * (j - 1) + 1, Min(3 * j, n))
            \* a batch is offered only after a reflex reply to the one before
            /\ Len(last.replies) = IF last.pc = "call" THEN calls - 1 ELSE calls
            /\ \A j \in 1..Len(last.replies) :
                  (j < calls \/ last.pc = "loop") =>
                      /\ last.replies[j].kind = "dict"
                      /\ last.replies[j].reflex
                      /\ last.replies[j].candidates = <<>>
            /\ (last.pc = "done" /\ ~IsBlank(last.query)) =>
                  IF calls = Len(last.replies) /\ calls > 0
                        /\ ~(last.replies[calls].kind = "dict"
                             /\ last.replies[calls].reflex
                             /\ last.replies[calls].candidates = <<>>)
                  THEN LET final == last.replies[calls]
                       IN  \* the search stopped on a reply: its candidates are returned,
                           \* and [] when the call failed or the reply carries none
                           last.result =
                               IF final.kind = "dict" THEN final.candidates
                               ELSE IF final.kind = "list" THEN final.items
                               ELSE <<>>
                  ELSE \* the dataset is exhausted
                       /\ 3 * calls >= n
                       /\ last.result = <<>>

\* C27: search_candidates offers batches of 3 in dataset order, each at most once
\* and the next one only after a 'reflex' reply, makes at most ceil(N/3) analyzer
\* calls, returns the candidates of the reply it stops on and [] when the dataset
\* is exhausted, the query is blank or a call fails; and every search terminates.
C27_SearchTerminates ==
    /\ []SearchAsClaimed
    /\ (last.op = "search") ~> (last.op = "search" /\ last.pc = "done")

\* a search of seven candidates that asked for more twice and then picked a candidate
C27_Witness ==
    /\ last.op = "search"
    /\ last.pc = "done"
    /\ Len(dataset) = 7
    /\ Len(last.offered) = 3
    /\ Len(last.offered[3]) = 1
    /\ last.result # <<>>


\* C28 as stated: when an /analyze-cv or /compare-cvs request has finished, with
\* success or with a failure at any step, no temporary file that the request
\* created is left on disk.
C28_TempFilesDeleted ==
    (last.op = "cv" /\ last.pc = "done") => last.created \cap temp_files = {}


\* C24 as stated: an analyzer call of rank_candidates that gets no reply is cut off,
\* so that the rank_candidates call it belongs to eventually returns.
C24_HungAnalyzerCutOff ==
    (last.op = "ranking" /\ last.pc = "waiting") ~> (last.op = "ranking" /\ last.pc = "done")

====
